---- MODULE Spec2Model ----
(***************************************************************************)
(* Model of matomo_import_logs.py: the parsing thread (main / Parser.parse)*)
(* feeding Recorder.queue, the pool of Recorder threads (_run_bulk,        *)
(* _record_hits), the retrying transport (Matomo._call_wrapper), the       *)
(* shared State (stop flag and reason) and Statistics.Counter.             *)
(***************************************************************************)
EXTENDS Integers, Sequences, FiniteSets, TLC

\* ------------------------------------------------------------------ bounds
NumFiles == 2          \* len(config.filenames)
MaxLines == 2          \* lines per log file
NumRecorders == 2      \* config.options["recorders"]
Threshold == 2         \* config.max_payload (Recorder.threshold)
MaxAttempts == 2       \* largest config.options["default_max_attempts"] tried
MaxEofReads == 2       \* reads at end of file counted inside one create_regex
MaxRequests == 3       \* len(data['requests']) given to _on_tracking_failure
MaxStatusLen == 3      \* digits of a status
NumPatterns == 2       \* len(config.options["tracking_metadata"]), ...["tracking_download"]
MaxIpLen == 7          \* characters of the client address of a line
MaxTzHours == 5        \* largest HH of a timezone offset
MaxSkip == 3           \* largest --skip tried

Files == 1..NumFiles
Recorders == 1..NumRecorders

\* ------------------------------------------------------------ values
NoneItem == [sentinel |-> TRUE]          \* the None put by wait_empty
NoReason == <<>>                         \* State._reason = None
NoLine == [eof |-> TRUE]                 \* readline() returned ''

\* A log line, reduced to what Parser.parse makes of it: does the format
\* match, the status string (as digits; empty when format.get('status') finds
\* no status, format_status = ""), does the path match a metadata /
\* download pattern, does the user agent match a robot pattern, do the date
\* and the timezone parse.
MkLine(m, st, me, dl, rb, d, tz) ==
    [eof |-> FALSE, match |-> m, status |-> st, meta |-> me, download |-> dl,
     robot |-> rb, date_ok |-> d, tz_ok |-> tz]

Lines ==
    { MkLine(FALSE, <<2,0,0>>, FALSE, FALSE, FALSE, TRUE, TRUE),
      MkLine(TRUE,  <<2,0,0>>, FALSE, TRUE,  FALSE, TRUE, TRUE),
      MkLine(TRUE,  <<2,0,0>>, TRUE,  FALSE, FALSE, TRUE, TRUE),
      MkLine(TRUE,  <<2,0,0>>, TRUE,  TRUE,  FALSE, TRUE, TRUE),
      MkLine(TRUE,  <<2,0,0>>, FALSE, TRUE,  TRUE,  TRUE, TRUE),
      MkLine(TRUE,  <<3,0,1>>, FALSE, TRUE,  FALSE, TRUE, TRUE),
      MkLine(TRUE,  <<3,0,4>>, TRUE,  FALSE, FALSE, TRUE, TRUE),
      MkLine(TRUE,  <<4,0,4>>, FALSE, FALSE, FALSE, TRUE, TRUE),
      MkLine(TRUE,  <<2,0,0>>, FALSE, TRUE,  FALSE, FALSE, TRUE),
      MkLine(TRUE,  <<2,0,0>>, TRUE,  FALSE, FALSE, TRUE, FALSE),
      MkLine(TRUE,  <<>>,      FALSE, TRUE,  FALSE, TRUE, TRUE) }

\* The two kinds of line the delivery pipeline tells apart: a download that
\* is enqueued and a 404 that is not.
PipelineLines ==
    { MkLine(TRUE, <<2,0,0>>, FALSE, TRUE,  FALSE, TRUE, TRUE),
      MkLine(TRUE, <<4,0,4>>, FALSE, FALSE, FALSE, TRUE, TRUE) }

\* What json.loads makes of the collector's answer to a bulk request, reduced
\* to what _record_hits reads in it: `indices` are the 0-based positions of
\* the requests that the collector flagged invalid; kind "invalid_indices"
\* is an answer that lists them, kind "invalid" an answer that only counts
\* them ('invalid' > 0), kind "empty" is {} (also: a body that is not JSON).
NoResponse == [kind |-> "none", indices |-> {}]       \* no call has returned
EmptyResponse == [kind |-> "empty", indices |-> {}]
Responses ==
    {EmptyResponse} \cup
    {[kind |-> k, indices |-> I] :
        k \in {"invalid_indices", "invalid"}, I \in (SUBSET (0..Threshold)) \ {{}}}

\* The network call chosen whatever the configuration says.
SendRequest_AlwaysReal(dry) == "_real_request"

\* Matomo.__init__: self._send_request is _real_request, and _fake_request
\* if config.dry_run.
SendRequest(dry) == IF dry THEN "_fake_request" ELSE "_real_request"

\* ------------------------------------------------------------ formats
\* FORMATS, in the order of the dict.
FORMATS ==
    << "common", "common_vhost", "ncsa_extended", "common_complete",
       "w3c_extended", "amazon_cloudfront", "iis", "shoutcast", "s3",
       "icecast2", "elb", "nginx_json", "ovh" >>

\* The entries of FORMATS that are W3cExtendedFormat objects (the class and
\* its subclasses), and the one that is a JsonFormat.
W3cExtendedFormat == {"w3c_extended", "amazon_cloudfront", "iis", "shoutcast"}
JsonFormat == {"nginx_json"}

\* Sample lines of a log file, by kind:
\*   blank       an empty line
\*   hdr         #Software: Microsoft Internet Information Services 7.5
\*   fields      #Fields: date time cs-uri-stem sc-status
\*   fields_iis  #Fields: date time cs-uri-stem sc-status sc-win32-status
\*   fields_st   #Fields: sc-status
\*   fields_x    #Fields: x-foo
\*   iis         2012-04-01 00:00:13 /index.html 200 0
\*   ncsa        1.2.3.4 - - [10/Feb/2012:16:42:07 -0500] "GET / HTTP/1.0" 301 368 "-" "Mozilla"
\*   num         200
\*   garbage     hello world
FieldsLines == {"fields", "fields_iis", "fields_st", "fields_x"}
LineKinds == {"blank", "hdr", "iis", "ncsa", "num", "garbage"} \cup FieldsLines
EofLine == "eof"                         \* readline() returned ''
NoRegex == "None"                        \* self.regex = None

\* The contents of a log file.
Streams == UNION {[1..n -> LineKinds] : n \in 0..MaxLines}

\* file.readline() at position p of stream st (p lines already read).
ReadLine(st, p) == IF p < Len(st) THEN st[p + 1] ELSE EofLine

\* The number of groups of the regex of a RegexFormat of the catalogue.
RegexGroups(name) ==
    CASE name = "common" -> 8
      [] name = "common_vhost" -> 9
      [] name = "ncsa_extended" -> 10
      [] name = "common_complete" -> 11
      [] name = "s3" -> 11
      [] name = "icecast2" -> 11
      [] name = "elb" -> 8
      [] name = "ovh" -> 10

\* The sample lines that the regex of a RegexFormat of the catalogue matches.
RegexMatches(name) ==
    IF name \in {"common", "ncsa_extended", "ovh"} THEN {"ncsa"} ELSE {}

\* The sample lines that json.loads accepts.
JsonLines == {"num"}

\* W3cExtendedFormat.create_regex: the sample lines that the regex built from
\* the Fields line fk matches (regex.match: a match of a prefix of the line).
W3cMatches(fk) ==
    CASE fk = "fields" -> {"iis"}
      [] fk = "fields_iis" -> {"iis"}
      [] fk = "fields_st" -> {"iis", "ncsa", "num"}
      [] fk = "fields_x" -> LineKinds \ {"blank"}

\* W3cExtendedFormat.create_regex: the number of groups of the regex that the
\* class of format `name` builds from the Fields line fk; a field that is not
\* in the class's table gets a regex without a group, and only IisFormat has
\* sc-win32-status in its table.
W3cGroups(name, fk) ==
    CASE fk = "fields" -> 3
      [] fk = "fields_iis" -> IF name = "iis" THEN 4 ELSE 3
      [] fk = "fields_st" -> 1
      [] fk = "fields_x" -> 0

\* What a format's check returns: None (or False), a match object with n
\* groups, or True (JsonFormat.check_format_line).
NoMatch == [m |-> "None", n |-> 0]
MatchObject(n) == [m |-> "match", n |-> n]
BoolTrue == [m |-> "True", n |-> 0]
Skipped == [m |-> "skipped", n |-> 0]

\* candidate_format.check_format_line(line) for the format `name` whose
\* self.regex is rx, on a line of kind k.
check_format_line(name, rx, k) ==
    IF name \in W3cExtendedFormat
    THEN IF rx = NoRegex \/ k \notin W3cMatches(rx)
         THEN NoMatch
         ELSE MatchObject(W3cGroups(name, rx))
    ELSE IF name \in JsonFormat
         THEN IF k \in JsonLines THEN BoolTrue ELSE NoMatch
         ELSE IF k \in RegexMatches(name)
              THEN MatchObject(RegexGroups(name))
              ELSE NoMatch

\* The comparison of the groups with <= in place of <.
Select_LastWins(sel, match, i) ==
    IF match.m = "match"
    THEN IF sel.format_groups <= match.n
         THEN [format |-> i, format_groups |-> match.n]
         ELSE sel
    ELSE IF match.m = "True"
         THEN [format |-> i, format_groups |-> sel.format_groups]
         ELSE sel

\* Parser.check_format: what the loop body does with the match of candidate
\* i; format 0 is False.  A match without groups() (True) takes the
\* 'except AttributeError' branch.
Select(sel, match, i) ==
    IF match.m = "match"
    THEN IF sel.format_groups < match.n
         THEN [format |-> i, format_groups |-> match.n]
         ELSE sel
    ELSE IF match.m = "True"
         THEN [format |-> i, format_groups |-> sel.format_groups]
         ELSE sel

NoSelection == [format |-> 0, format_groups |-> 0]
NoMatches == [i \in 1..Len(FORMATS) |-> NoMatch]

VARIABLES
    \* configuration
    max_attempts,      \* config.options["default_max_attempts"]
    dry_run,           \* config.dry_run
    skip,              \* config.skip
    send_request,      \* Matomo._send_request
    \* State
    stopped, reason,
    \* main thread
    main_pc, fileIdx, lineno, line, sentinels,
    \* Recorder.queue
    queue,
    \* Statistics
    count_lines_parsed, count_lines_static, count_lines_downloads,
    count_lines_skipped_user_agent,
    count_lines_recorded,   \* [counter, value] of Statistics.Counter
    summary_recorded,       \* count_lines_recorded.value as print_summary reads it
    \* recorder threads
    pc, hits, requests, final, errors, attempts, delays, adv_left, adv_tmp,
    \* the collector: how often it has tracked each hit
    delivered,
    \* history
    enqueued,          \* the hits put on the queue, in order
    dequeued,          \* how often each hit has been taken off the queue
    afterStop,         \* what the parsing thread did while the flag was set
    \* Parser.detect_format on the file that parse has opened
    stream,            \* the contents of the file
    fpos,              \* its position, in lines
    regex,             \* self.regex of the W3cExtendedFormat objects
    det_pc,            \* where detect_format is
    det_format,        \* detect_format: format (0 is False)
    det_lineno,        \* detect_format: lineno
    cf_arg,            \* check_format: "file" or the line it was given
    cf_i,              \* check_format: the candidate the loop is at
    cf_sel,            \* check_format: format and format_groups
    cf_matches,        \* the match of each candidate of this check_format
    eof_reads,         \* create_regex: readline() calls that returned ''
    undetected,        \* the files for which detect_format returned None
    \* Recorder._record_hits
    response,          \* the decoded response of the call that returned
    invalid_lines,     \* Statistics.invalid_lines
    \* history
    lines_read,        \* the lines that parse has read, over all files
    \* Recorder._on_tracking_failure(response, data)
    otf_pc,            \* "idle", "call", "returned"
    otf_response,      \* its argument response
    otf_requests,      \* data['requests'] at the call
    otf_data,          \* data['requests']
    otf_ret,           \* what it returns, or the exception it raises
    \* Parser.parse on one matched line
    hit_pc,            \* the statement it is at
    fields,            \* what the format gives for the line
    hit,               \* the Hit
    \* Parser.parse: the client address of one matched line
    ip_pc,             \* "idle", "get", "done"
    ip_anonymization,  \* config.options["ip_anonymization"]
    ip,                \* format.get('ip'), as characters
    hit_ip,            \* hit.ip, or the exception raised
    \* Parser.parse: the date of one matched line
    tz_pc,             \* "idle", "timezone", "done"
    date_local,        \* format.parseTime(date_string), in seconds
    timezone,          \* format.get('timezone')
    hit_date           \* hit.date, in seconds

cfgVars == <<max_attempts, dry_run, send_request, skip>>
stateVars == <<stopped, reason>>
mainVars == <<main_pc, fileIdx, lineno, line, sentinels>>
parseStats == <<count_lines_parsed, count_lines_static, count_lines_downloads,
                count_lines_skipped_user_agent>>
recVars == <<pc, hits, requests, final, errors, attempts, delays, adv_left, adv_tmp>>
respVars == <<response, invalid_lines>>
otfVars == <<otf_pc, otf_response, otf_requests, otf_data, otf_ret>>
ipVars == <<ip_pc, ip_anonymization, ip, hit_ip>>
tzVars == <<tz_pc, date_local, timezone, hit_date>>
hitVars == <<hit_pc, fields, hit, ipVars, tzVars>>
cfVars == <<cf_arg, cf_i, cf_sel, cf_matches>>
detVars == <<stream, fpos, regex, det_pc, det_format, det_lineno, cfVars,
             eof_reads, undetected>>
vars == <<cfgVars, stateVars, mainVars, queue, parseStats, count_lines_recorded,
          summary_recorded, recVars, delivered, enqueued, dequeued, afterStop,
          detVars, respVars, lines_read, otfVars, hitVars>>

HitIds == Files \X (0..(MaxLines - 1))

\* ------------------------------------------------------------ State
\* State.stop without the test of the flag.
StateStop_Unguarded(r) == stopped' = TRUE /\ reason' = r

\* State.stop(reason): no-op when already stopped.
StateStop(r) ==
    IF stopped
    THEN UNCHANGED stateVars
    ELSE stopped' = TRUE /\ reason' = r

\* The head of the payload kept in place of its tail.
OnTrackingFailure_KeepsHead(reqs, tracked) ==
    IF tracked >= Len(reqs) THEN <<>> ELSE SubSeq(reqs, 1, Len(reqs) - tracked)

\* Recorder._on_tracking_failure: data['requests'][tracked:]
OnTrackingFailure(reqs, tracked) ==
    IF tracked >= Len(reqs) THEN <<>> ELSE SubSeq(reqs, tracked + 1, Len(reqs))

\* ------------------------------------------------------------ one line
\* What format.get(key) gives for a key of the generation time: the key is
\* absent (BaseFormatException; KeyError inside JsonFormat.get for
\* 'generation_time_milli'), its text is no number (float raises
\* ValueError, e.g. '-' or '1.2.3'), or its text is the number n.
Absent == -1
Unparsable == -2
GtNumbers == {0, 150}
GtValues == {Absent, Unparsable} \cup GtNumbers

\* What regEx.match(hit.path) gives for one configured pattern: no match
\* ("none"), a match whose identifier oai.group(1)[rfind("/")+1:] is empty
\* ("empty") or not ("id"), or a match without a group 1 to take it from
\* ("nogroup": IndexError, or AttributeError on None).
PatternMatches == {"none", "empty", "id", "nogroup"}
PatternLists == UNION {[1..n -> PatternMatches] : n \in 0..NumPatterns}

Digits == 0..9
Statuses == UNION {[1..n -> Digits] : n \in 0..MaxStatusLen}

\* A matched line as the format gives it to Parser.parse.
MkFields(k, st, me, dl, rb, ms, us, secs) ==
    [kind |-> k, status |-> st, meta |-> me, download |-> dl, robot |-> rb,
     generation_time_milli |-> ms, generation_time_micro |-> us,
     generation_time_secs |-> secs]

NoFields == MkFields("regex", <<>>, <<>>, <<>>, FALSE, Absent, Absent, Absent)

\* The lines tried: every status, every outcome of the patterns, every
\* combination of the generation-time keys for a RegexFormat and for the
\* JsonFormat.
HitInputs ==
    {MkFields("regex", st, <<>>, <<"id">>, FALSE, Absent, Absent, Absent) :
        st \in Statuses} \cup
    {MkFields("regex", <<2, 0, 0>>, me, dl, rb, Absent, Absent, Absent) :
        me \in PatternLists, dl \in PatternLists, rb \in BOOLEAN} \cup
    {MkFields(k, <<2, 0, 0>>, <<>>, <<"id">>, FALSE, ms, us, secs) :
        k \in {"regex", "json"}, ms \in GtValues, us \in GtValues,
        secs \in GtValues}

\* Hit(...) as parse constructs it; generation_time is
\* hit.generation_time_milli in thousandths of a millisecond, gt_source the
\* key it was taken from, raised the exception that left parse.
NewHit(st) ==
    [status |-> st, is_meta |-> FALSE, is_download |-> FALSE,
     is_robot |-> FALSE, is_error |-> FALSE, is_redirect |-> FALSE,
     cvar |-> <<>>, generation_time |-> 0, gt_source |-> "unset",
     raised |-> "None"]

\* The value of the digits st read as a decimal number.
RECURSIVE StatusValue(_)
StatusValue(st) ==
    IF st = <<>> THEN 0
    ELSE 10 * StatusValue(SubSeq(st, 1, Len(st) - 1)) + st[Len(st)]

\* Parser.parse: hit.generation_time_milli from the keys of the line, in
\* thousandths of a millisecond.  JsonFormat.get('generation_time_milli')
\* reads self.json[key] outside its try (KeyError when the key is absent)
\* and returns the value times 1000.
GenerationTime(f) ==
    LET ms == f.generation_time_milli
        us == f.generation_time_micro
        secs == f.generation_time_secs
    IN IF f.kind = "json" /\ ms = Absent
       THEN [raised |-> "KeyError", source |-> "unset", value |-> 0]
       ELSE IF ms \in GtNumbers
       THEN [raised |-> "None", source |-> "generation_time_milli",
             value |-> (IF f.kind = "json" THEN ms * 1000 ELSE ms) * 1000]
       ELSE IF us \in GtNumbers
       THEN [raised |-> "None", source |-> "generation_time_micro", value |-> us]
       ELSE IF secs \in GtNumbers
       THEN [raised |-> "None", source |-> "generation_time_secs",
             value |-> secs * 1000 * 1000]
       ELSE [raised |-> "None", source |-> "default", value |-> 0]

\* An empty identifier marking the hit too.
Marks_EmptyToo(m) == m \in {"id", "empty"}

\* check_static, check_download: finalOAIpmh != config.options["oaipmh_preamble"]
Marks(m) == m = "id"

\* Parser.check_static from pattern i on: every pattern is tried, each one
\* that marks adds a custom variable.
RECURSIVE CheckStatic(_, _, _)
CheckStatic(ms, i, h) ==
    IF i > Len(ms) THEN h
    ELSE IF ms[i] = "nogroup" THEN [h EXCEPT !.raised = "IndexError"]
    ELSE IF Marks(ms[i])
         THEN CheckStatic(ms, i + 1,
                  [h EXCEPT !.is_meta = TRUE,
                            !.cvar = Append(@, <<"oaipmhID", "metadata", i>>)])
         ELSE CheckStatic(ms, i + 1, h)

\* Parser.check_download from pattern i on: the first pattern that marks
\* ends the loop.
RECURSIVE CheckDownload(_, _, _)
CheckDownload(ds, i, h) ==
    IF i > Len(ds) THEN h
    ELSE IF ds[i] = "nogroup" THEN [h EXCEPT !.raised = "IndexError"]
    ELSE IF Marks(ds[i])
         THEN [h EXCEPT !.is_download = TRUE,
                        !.cvar = Append(@, <<"oaipmhID", "download", i>>)]
         ELSE CheckDownload(ds, i + 1, h)

\* The characters that [\w*.:-]+ captures, as far as the model goes.
IpChars == {"0", "7", ".", ":"}

\* The strings of 1..n characters of IpChars.
IpStrings(n) == UNION {[1..k -> IpChars] : k \in 1..n}

NoIp == <<>>

\* str.split('.')
RECURSIVE SplitDot(_)
SplitDot(s) ==
    IF \A i \in 1..Len(s) : s[i] # "."
    THEN <<s>>
    ELSE LET i == CHOOSE k \in 1..Len(s) :
                      s[k] = "." /\ \A j \in 1..(k - 1) : s[j] # "."
         IN <<SubSeq(s, 1, i - 1)>> \o SplitDot(SubSeq(s, i + 1, Len(s)))

\* The anonymization keeping the third part of the address.
Anonymize_KeepsThird(s) ==
    LET parts == SplitDot(s)
    IN IF Len(parts) < 2 THEN <<"ValueError">>
       ELSE IF Len(parts) < 3 THEN parts[1] \o <<".">> \o parts[2] \o <<".", "0", ".", "0">>
       ELSE parts[1] \o <<".">> \o parts[2] \o <<".">> \o parts[3] \o <<".", "0">>

\* ip0, ip1, *_ = hit.ip.split('.'); hit.ip = f"{ip0}.{ip1}.0.0"
\* (ValueError when split gives one part only)
Anonymize(s) ==
    LET parts == SplitDot(s)
    IN IF Len(parts) < 2 THEN <<"ValueError">>
       ELSE parts[1] \o <<".">> \o parts[2] \o <<".", "0", ".", "0">>

\* No client address is being read.
IpIdle ==
    /\ ip_pc = "idle"
    /\ ip_anonymization = FALSE
    /\ ip = NoIp
    /\ hit_ip = NoIp

\* A timezone offset sHHMM; NoTimezone when the format has no such group.
Timezones ==
    [present : {TRUE}, sign : {1, -1}, hh : 0..MaxTzHours, mm : {0, 30, 45}]
NoTimezone == [present |-> FALSE, sign |-> 1, hh |-> 0, mm |-> 0]

\* The times that format.parseTime returns, in seconds.
LocalTimes == {0, 86400, 1000000}

\* float(format.get('timezone')): sHHMM read as one decimal number; 0 when
\* format.get raises BaseFormatException.
TimezoneFloat(tz) ==
    IF tz.present THEN tz.sign * (tz.hh * 100 + tz.mm) ELSE 0

\* datetime.timedelta(hours=timezone/100), in seconds.
TimezoneDelta(t) == t * 36

\* No date is being parsed.
TzIdle ==
    /\ tz_pc = "idle"
    /\ date_local = 0
    /\ timezone = NoTimezone
    /\ hit_date = 0

\* No line is being made into a hit.
HitIdle ==
    /\ hit_pc = "idle"
    /\ fields = NoFields
    /\ hit = NewHit(<<>>)
    /\ IpIdle
    /\ TzIdle

\* ------------------------------------------------------------ Init
\* No call of _on_tracking_failure is under way.
OtfIdle ==
    /\ otf_pc = "idle"
    /\ otf_response = [json |-> FALSE, tracked |-> -1, message |-> FALSE]
    /\ otf_requests = <<>>
    /\ otf_data = <<>>
    /\ otf_ret = "None"

\* The state after construction, for --skip in the set skips.
PipelineStart(skips) ==
    /\ skip \in skips
    /\ max_attempts \in 1..MaxAttempts
    /\ dry_run \in BOOLEAN
    /\ send_request = SendRequest(dry_run)
    /\ stopped = TRUE
    /\ reason = NoReason
    /\ main_pc = "start"
    /\ fileIdx = 1
    /\ lineno = -1
    /\ line = NoLine
    /\ sentinels = 0
    /\ queue = <<>>
    /\ count_lines_parsed = 0
    /\ count_lines_static = 0
    /\ count_lines_downloads = 0
    /\ count_lines_skipped_user_agent = 0
    /\ count_lines_recorded = [counter |-> 0, value |-> 0]
    /\ summary_recorded = -1
    /\ pc = [r \in Recorders |-> "idle"]
    /\ hits = [r \in Recorders |-> <<>>]
    /\ requests = [r \in Recorders |-> <<>>]
    /\ final = [r \in Recorders |-> FALSE]
    /\ errors = [r \in Recorders |-> 0]
    /\ attempts = [r \in Recorders |-> 0]
    /\ delays = [r \in Recorders |-> 0]
    /\ adv_left = [r \in Recorders |-> 0]
    /\ adv_tmp = [r \in Recorders |-> 0]
    /\ delivered = [h \in HitIds |-> 0]
    /\ enqueued = <<>>
    /\ dequeued = [h \in HitIds |-> 0]
    /\ afterStop = [hits |-> 0, lines |-> 0, files |-> 0]
    /\ stream = <<>>
    /\ fpos = 0
    /\ regex = [f \in W3cExtendedFormat |-> NoRegex]
    /\ det_pc = "idle"
    /\ det_format = 0
    /\ det_lineno = 0
    /\ cf_arg = "file"
    /\ cf_i = 1
    /\ cf_sel = NoSelection
    /\ cf_matches = NoMatches
    /\ eof_reads = 0
    /\ undetected = {}
    /\ response = [r \in Recorders |-> NoResponse]
    /\ invalid_lines = <<>>
    /\ lines_read = 0

\* --skip has its default, 0.
PipelineInit == PipelineStart({0})

Init == PipelineInit /\ OtfIdle /\ HitIdle

\* ------------------------------------------------------------ Parser
\* Parser.check_http_error: 4 <= int(hit.status[0]) <= 5
check_http_error(st) == st[1] >= 4 /\ st[1] <= 5

\* Parser.check_http_redirect: hit.status[0] == '3' and hit.status != '304'
check_http_redirect(st) == st[1] = 3 /\ st # <<3,0,4>>

\* The Hit built by Parser.parse for line l (line number n of file f) after
\* all check_* methods have run.
MakeHit(f, n, l) ==
    [filename |-> f, lineno |-> n,
     is_meta |-> l.meta,
     is_download |-> l.download,
     is_robot |-> l.robot,
     is_error |-> check_http_error(l.status),
     is_redirect |-> check_http_redirect(l.status)]

\* The line yields a valid hit: it matched, its date and timezone parsed
\* (is_filtered never filters).
ValidLine(l) == l.match /\ l.date_ok /\ l.tz_ok

\* Deliverable with the redirect test left out.
Deliverable_NoRedirectTest(h) ==
    (~h.is_robot) /\ (h.is_meta \/ h.is_download)

\* Parser.parse: the condition under which Recorder.add_hit is called.
Deliverable(h) ==
    (~h.is_robot) /\ (h.is_meta \/ h.is_download) /\ (~h.is_redirect)

\* The download counter without the redirect test.
CountsDownload_NoRedirectTest(h) == (~h.is_robot) /\ h.is_download

\* Parser.parse: the condition of stats.count_lines_downloads.increment()
CountsDownload(h) == (~h.is_robot) /\ (~h.is_redirect) /\ h.is_download

\* Parser.parse: the condition of stats.count_lines_static.increment()
CountsStatic(h) == (~h.is_robot) /\ (~h.is_redirect) /\ h.is_meta

Bump(field) == [afterStop EXCEPT ![field] = @ + 1]

\* main: state.start(), Recorder.launch(n).
MainStart ==
    /\ main_pc = "start"
    /\ stopped' = FALSE
    /\ reason' = reason
    /\ pc' = [r \in Recorders |-> "get"]
    /\ main_pc' = "check_file"
    /\ UNCHANGED <<respVars, lines_read, hitVars, otfVars, detVars, cfgVars, dequeued, fileIdx, lineno, line, sentinels, queue, parseStats,
                   count_lines_recorded, summary_recorded, hits, requests, final,
                   errors, attempts, delays, adv_left, adv_tmp, delivered,
                   enqueued, afterStop>>

\* main: for filename in config.filenames: if state.is_stopped: break
MainCheckFile ==
    /\ main_pc = "check_file"
    /\ main_pc' = IF fileIdx > NumFiles \/ stopped THEN "wait_put" ELSE "parse"
    /\ UNCHANGED <<respVars, lines_read, hitVars, otfVars, detVars, cfgVars, dequeued, stateVars, fileIdx, lineno, line, sentinels, queue,
                   parseStats, count_lines_recorded, summary_recorded, recVars,
                   delivered, enqueued, afterStop>>

\* Parser.parse up to the line loop: open the file and detect its format;
\* without a format parse returns and main goes on with the next file.
MainParse ==
    /\ main_pc = "parse"
    /\ \E detected \in BOOLEAN :
         IF detected
         THEN main_pc' = "loop" /\ lineno' = -1 /\ fileIdx' = fileIdx
         ELSE main_pc' = "check_file" /\ lineno' = -1 /\ fileIdx' = fileIdx + 1
    /\ afterStop' = IF stopped THEN Bump("files") ELSE afterStop
    /\ UNCHANGED <<respVars, lines_read, hitVars, otfVars, detVars, cfgVars, dequeued, stateVars, line, sentinels, queue, parseStats,
                   count_lines_recorded, summary_recorded, recVars, delivered,
                   enqueued>>

\* The line loop going on whatever the stop flag says.
LoopCondition_IgnoresStop == TRUE

\* Parser.parse: the condition of the line loop, not state.is_stopped
LoopCondition == ~stopped

\* Parser.parse: while not state.is_stopped
MainLoop ==
    /\ main_pc = "loop"
    /\ IF LoopCondition
       THEN main_pc' = "read" /\ fileIdx' = fileIdx /\ lineno' = lineno
       ELSE main_pc' = "check_file" /\ fileIdx' = fileIdx + 1 /\ lineno' = -1
    /\ UNCHANGED <<respVars, lines_read, hitVars, otfVars, detVars, cfgVars, dequeued, stateVars, line, sentinels, queue, parseStats,
                   count_lines_recorded, summary_recorded, recVars, delivered,
                   enqueued, afterStop>>

\* Parser.parse: line = file.readline(); if not line: break
MainRead(L) ==
    /\ main_pc = "read"
    /\ \/ /\ main_pc' = "check_file"
          /\ fileIdx' = fileIdx + 1
          /\ lineno' = -1
          /\ line' = NoLine
          /\ afterStop' = afterStop
          /\ lines_read' = lines_read
       \/ /\ lineno + 1 < MaxLines
          /\ \E l \in L : line' = l
          /\ lineno' = lineno + 1
          /\ main_pc' = "process"
          /\ fileIdx' = fileIdx
          /\ afterStop' = IF stopped THEN Bump("lines") ELSE afterStop
          /\ lines_read' = lines_read + 1
    /\ UNCHANGED <<respVars, hitVars, otfVars, detVars, cfgVars, dequeued, stateVars, sentinels, queue, parseStats,
                   count_lines_recorded, summary_recorded, recVars, delivered,
                   enqueued>>

\* Parser.check_http_error: hit.status[0] on an empty status raises IndexError.
StatusIndexError(st) == Len(st) = 0

\* The skip counted anew in each file.
SkipTest_PerFile(parsed, n) == n + 1 <= skip

\* Parser.parse: if stats.count_lines_parsed.value <= config.skip: continue
SkipTest(parsed, n) == parsed <= skip

\* Parser.parse: the body of the line loop for the line just read.  The
\* check_* methods run in the order of their names (inspect.getmembers), so
\* check_http_error comes before check_user_agent; what it raises leaves
\* parse.
MainProcess ==
    /\ main_pc = "process"
    /\ count_lines_parsed' = count_lines_parsed + 1
    /\ IF SkipTest(count_lines_parsed + 1, lineno)
       THEN /\ main_pc' = "loop"
            /\ UNCHANGED <<queue, enqueued, afterStop, count_lines_static,
                           count_lines_downloads, count_lines_skipped_user_agent>>
       ELSE IF line.match /\ StatusIndexError(line.status)
       THEN /\ main_pc' = "raised"
            /\ UNCHANGED <<queue, enqueued, afterStop, count_lines_static,
                           count_lines_downloads, count_lines_skipped_user_agent>>
       ELSE /\ main_pc' = "loop"
            /\ LET h == MakeHit(fileIdx, lineno, line)
                   put == ValidLine(line) /\ Deliverable(h)
               IN /\ count_lines_skipped_user_agent' =
                        IF line.match /\ h.is_robot
                        THEN count_lines_skipped_user_agent + 1
                        ELSE count_lines_skipped_user_agent
                  /\ queue' = IF put THEN Append(queue, h) ELSE queue
                  /\ enqueued' = IF put THEN Append(enqueued, h) ELSE enqueued
                  /\ afterStop' = IF put /\ stopped THEN Bump("hits") ELSE afterStop
                  /\ count_lines_static' =
                        IF ValidLine(line) /\ CountsStatic(h)
                        THEN count_lines_static + 1 ELSE count_lines_static
                  /\ count_lines_downloads' =
                        IF ValidLine(line) /\ CountsDownload(h)
                        THEN count_lines_downloads + 1 ELSE count_lines_downloads
    /\ line' = NoLine
    /\ UNCHANGED <<respVars, lines_read, hitVars, otfVars, detVars, cfgVars, dequeued, stateVars, fileIdx, lineno, sentinels,
                   count_lines_recorded, summary_recorded, recVars, delivered>>

\* main: an exception other than KeyboardInterrupt leaves parser.parse and
\* the try block; the finally clause runs before it ends the program.
MainRaised ==
    /\ main_pc = "raised"
    /\ main_pc' = "finally"
    /\ lineno' = -1
    /\ UNCHANGED <<respVars, lines_read, hitVars, otfVars, detVars, cfgVars, dequeued, stateVars, fileIdx, line, sentinels, queue,
                   parseStats, count_lines_recorded, summary_recorded, recVars,
                   delivered, enqueued, afterStop>>

\* One sentinel fewer than there are recorders.
SentinelsToPut_OneShort == Cardinality(Recorders) - 1

\* Recorder.wait_empty: one None for each element of cls.recorders.
SentinelsToPut == Cardinality(Recorders)

\* Recorder.wait_empty: for i in cls.recorders: cls.queue.put(None)
MainWaitPut ==
    /\ main_pc = "wait_put"
    /\ IF sentinels < SentinelsToPut
       THEN /\ queue' = Append(queue, NoneItem)
            /\ sentinels' = sentinels + 1
            /\ main_pc' = main_pc
       ELSE /\ main_pc' = "wait_queue"
            /\ UNCHANGED <<queue, sentinels>>
    /\ UNCHANGED <<respVars, lines_read, hitVars, otfVars, detVars, cfgVars, dequeued, stateVars, fileIdx, lineno, line, parseStats,
                   count_lines_recorded, summary_recorded, recVars, delivered,
                   enqueued, afterStop>>

\* Recorder.wait_empty: while not cls.queue.empty() ...
MainWaitQueue ==
    /\ main_pc = "wait_queue"
    /\ main_pc' = IF queue = <<>> THEN "finally" ELSE "wait_state"
    /\ UNCHANGED <<respVars, lines_read, hitVars, otfVars, detVars, cfgVars, dequeued, stateVars, fileIdx, lineno, line, sentinels, queue,
                   parseStats, count_lines_recorded, summary_recorded, recVars,
                   delivered, enqueued, afterStop>>

\* wait_empty giving up after one poll, whatever the stop flag says.
MainWaitState_NoStopTest ==
    /\ main_pc = "wait_state"
    /\ main_pc' = "finally"
    /\ UNCHANGED <<respVars, lines_read, hitVars, otfVars, detVars, cfgVars, dequeued, stateVars, fileIdx, lineno, line, sentinels, queue,
                   parseStats, count_lines_recorded, summary_recorded, recVars,
                   delivered, enqueued, afterStop>>

\* Recorder.wait_empty: ... and not state.is_stopped: sleep(0.5)
MainWaitState ==
    /\ main_pc = "wait_state"
    /\ main_pc' = IF stopped THEN "finally" ELSE "wait_queue"
    /\ UNCHANGED <<respVars, lines_read, hitVars, otfVars, detVars, cfgVars, dequeued, stateVars, fileIdx, lineno, line, sentinels, queue,
                   parseStats, count_lines_recorded, summary_recorded, recVars,
                   delivered, enqueued, afterStop>>

\* main: except KeyboardInterrupt: state.stop("Interrupted")
MainInterrupt ==
    /\ main_pc \in {"check_file", "parse", "loop", "read", "process",
                    "wait_put", "wait_queue", "wait_state"}
    /\ StateStop(<<"Interrupted">>)
    /\ main_pc' = "finally"
    /\ line' = NoLine
    /\ lineno' = -1
    /\ UNCHANGED <<respVars, lines_read, hitVars, otfVars, detVars, cfgVars, dequeued, fileIdx, sentinels, queue, parseStats,
                   count_lines_recorded, summary_recorded, recVars, delivered,
                   enqueued, afterStop>>

\* main: finally: state.stop()
MainFinally ==
    /\ main_pc = "finally"
    /\ StateStop(NoReason)
    /\ main_pc' = "summary"
    /\ UNCHANGED <<respVars, lines_read, hitVars, otfVars, detVars, cfgVars, dequeued, fileIdx, lineno, line, sentinels, queue, parseStats,
                   count_lines_recorded, summary_recorded, recVars, delivered,
                   enqueued, afterStop>>

\* main: stats.print_summary() reads count_lines_recorded.value; the process
\* then ends and its daemon threads with it.
MainSummary ==
    /\ main_pc = "summary"
    /\ summary_recorded' = count_lines_recorded.value
    /\ main_pc' = "done"
    /\ UNCHANGED <<respVars, lines_read, hitVars, otfVars, detVars, cfgVars, dequeued, stateVars, fileIdx, lineno, line, sentinels, queue,
                   parseStats, count_lines_recorded, recVars, delivered,
                   enqueued, afterStop>>

\* ------------------------------------------------------------ detect_format
DetectLimit == 100000                    \* detect_format: limit

pipeVars == <<cfgVars, sentinels, queue, parseStats, count_lines_recorded,
              summary_recorded, recVars, delivered, enqueued, dequeued,
              respVars, lines_read, otfVars, hitVars>>

\* Parser.parse: the file is opened, detect_format starts with
\* Parser.check_format(file).
DetOpen ==
    /\ main_pc = "parse"
    /\ det_pc = "idle"
    /\ \E st \in Streams : stream' = st
    /\ fpos' = 0
    /\ det_pc' = "cf_file"
    /\ det_format' = 0
    /\ det_lineno' = 0
    /\ cf_arg' = "file"
    /\ cf_i' = 1
    /\ cf_sel' = NoSelection
    /\ cf_matches' = NoMatches
    /\ eof_reads' = 0
    /\ afterStop' = IF stopped THEN Bump("files") ELSE afterStop
    /\ UNCHANGED <<pipeVars, stateVars, main_pc, fileIdx, lineno, line, regex,
                   undetected>>

\* Parser.check_format(file), one candidate that is not a W3cExtendedFormat:
\* BaseFormat.check_format reads a line, seeks back and checks the line.
DetCheckFile ==
    /\ det_pc = "cf_file"
    /\ cf_i <= Len(FORMATS)
    /\ FORMATS[cf_i] \notin W3cExtendedFormat
    /\ LET name == FORMATS[cf_i]
           match == IF name = "ovh"
                    THEN Skipped
                    ELSE check_format_line(name, NoRegex, ReadLine(stream, fpos))
       IN /\ cf_sel' = Select(cf_sel, match, cf_i)
          /\ cf_matches' = [cf_matches EXCEPT ![cf_i] = match]
    /\ cf_i' = cf_i + 1
    /\ fpos' = 0
    /\ UNCHANGED <<pipeVars, stateVars, mainVars, afterStop, stream, regex, det_pc,
                   det_format, det_lineno, cf_arg, eof_reads, undetected>>

\* W3cExtendedFormat.create_regex, one pass of its loop: an empty line
\* (after strip) continues, and so does the '' of the end of the file; a
\* line that is no header ends the loop, a Fields line ends it and gives the
\* regex, another header line continues.
DetCreateRegex ==
    /\ det_pc \in {"cf_file", "create_regex"}
    /\ cf_i <= Len(FORMATS)
    /\ FORMATS[cf_i] \in W3cExtendedFormat
    /\ LET name == FORMATS[cf_i]
           l == ReadLine(stream, fpos)
       IN IF l = EofLine
          THEN /\ eof_reads < MaxEofReads
               /\ eof_reads' = eof_reads + 1
               /\ det_pc' = "create_regex"
               /\ UNCHANGED <<fpos, regex>>
          ELSE /\ fpos' = fpos + 1
               /\ eof_reads' = eof_reads
               /\ det_pc' = IF l \in {"blank", "hdr"} THEN "create_regex" ELSE "w3c_check"
               /\ regex' = IF l \in FieldsLines
                           THEN [regex EXCEPT ![name] = l]
                           ELSE regex
    /\ UNCHANGED <<pipeVars, stateVars, mainVars, afterStop, stream, det_format,
                   det_lineno, cfVars, undetected>>

\* W3cExtendedFormat.check_format after create_regex: without a regex the
\* format does not match; else the next line of the file is checked.
DetW3cCheck ==
    /\ det_pc = "w3c_check"
    /\ LET name == FORMATS[cf_i]
           match == IF regex[name] = NoRegex
                    THEN NoMatch
                    ELSE check_format_line(name, regex[name], ReadLine(stream, fpos))
       IN /\ cf_sel' = Select(cf_sel, match, cf_i)
          /\ cf_matches' = [cf_matches EXCEPT ![cf_i] = match]
    /\ cf_i' = cf_i + 1
    /\ fpos' = 0
    /\ eof_reads' = 0
    /\ det_pc' = "cf_file"
    /\ UNCHANGED <<pipeVars, stateVars, mainVars, afterStop, stream, regex,
                   det_format, det_lineno, cf_arg, undetected>>

\* Parser.check_format(line), one candidate.
DetCheckLine ==
    /\ det_pc = "cf_line"
    /\ cf_i <= Len(FORMATS)
    /\ LET name == FORMATS[cf_i]
           rx == IF name \in W3cExtendedFormat THEN regex[name] ELSE NoRegex
           match == IF name = "ovh"
                    THEN Skipped
                    ELSE check_format_line(name, rx, cf_arg)
       IN /\ cf_sel' = Select(cf_sel, match, cf_i)
          /\ cf_matches' = [cf_matches EXCEPT ![cf_i] = match]
    /\ cf_i' = cf_i + 1
    /\ UNCHANGED <<pipeVars, stateVars, mainVars, afterStop, stream, fpos, regex,
                   det_pc, det_format, det_lineno, cf_arg, eof_reads, undetected>>

\* Parser.check_format returns format to detect_format.
DetCheckFormatReturn ==
    /\ det_pc \in {"cf_file", "cf_line"}
    /\ cf_i = Len(FORMATS) + 1
    /\ det_format' = cf_sel.format
    /\ det_lineno' = IF cf_arg = "file" THEN 0 ELSE det_lineno
    /\ det_pc' = "line_loop"
    /\ cf_arg' = "file"
    /\ cf_i' = 1
    /\ cf_sel' = NoSelection
    /\ cf_matches' = NoMatches
    /\ UNCHANGED <<pipeVars, stateVars, mainVars, afterStop, stream, fpos, regex,
                   eof_reads, undetected>>

\* Parser.detect_format: while not format and lineno < limit: readline,
\* break at the end of the file, else check_format(line).
DetLineLoop ==
    /\ det_pc = "line_loop"
    /\ LET l == ReadLine(stream, fpos)
       IN IF det_format = 0 /\ det_lineno < DetectLimit /\ l # EofLine
          THEN /\ fpos' = fpos + 1
               /\ det_lineno' = det_lineno + 1
               /\ cf_arg' = l
               /\ det_pc' = "cf_line"
          ELSE /\ det_pc' = "return"
               /\ UNCHANGED <<fpos, det_lineno, cf_arg>>
    /\ UNCHANGED <<pipeVars, stateVars, mainVars, afterStop, stream, regex,
                   det_format, cf_i, cf_sel, cf_matches, eof_reads, undetected>>

\* A file without a format stopping the whole run.
DetReturn_StopsRun ==
    /\ det_pc = "return"
    /\ IF det_format = 0
       THEN /\ main_pc' = "check_file"
            /\ fileIdx' = fileIdx + 1
            /\ undetected' = undetected \cup {fileIdx}
            /\ StateStop(<<"Cannot guess the logs format">>)
       ELSE /\ main_pc' = "loop"
            /\ UNCHANGED <<fileIdx, undetected, stateVars>>
    /\ lineno' = -1
    /\ fpos' = 0
    /\ det_pc' = "idle"
    /\ stream' = <<>>
    /\ det_format' = 0
    /\ det_lineno' = 0
    /\ UNCHANGED <<pipeVars, line, afterStop, regex, cfVars, eof_reads>>

\* Parser.detect_format: file.seek(0) and return format, or None without a
\* format; Parser.parse then returns (and main goes to its next file) or
\* enters its line loop, whose lines MainRead draws.
DetReturn ==
    /\ det_pc = "return"
    /\ IF det_format = 0
       THEN /\ main_pc' = "check_file"
            /\ fileIdx' = fileIdx + 1
            /\ undetected' = undetected \cup {fileIdx}
       ELSE /\ main_pc' = "loop"
            /\ UNCHANGED <<fileIdx, undetected>>
    /\ UNCHANGED stateVars
    /\ lineno' = -1
    /\ fpos' = 0
    /\ det_pc' = "idle"
    /\ stream' = <<>>
    /\ det_format' = 0
    /\ det_lineno' = 0
    /\ UNCHANGED <<pipeVars, line, afterStop, regex, cfVars, eof_reads>>

\* ------------------------------------------------------------ detection as a function
\* Parser.detect_format as a function of the contents st of the file and of
\* the self.regex rx that the W3cExtendedFormat objects of FORMATS hold when
\* the file is opened.

\* The regexes of format objects that have seen no file.
FreshRegex == [f \in W3cExtendedFormat |-> NoRegex]

NoReturn == -1                           \* the call does not return

\* W3cExtendedFormat.create_regex from position p: the position after the
\* line that ends its loop; at the end of the file the loop does not end.
RECURSIVE CreateRegexEnd(_, _)
CreateRegexEnd(st, p) ==
    LET l == ReadLine(st, p)
    IN IF l = EofLine
       THEN NoReturn
       ELSE IF l \in {"blank", "hdr"}
            THEN CreateRegexEnd(st, p + 1)
            ELSE p + 1

\* Parser.check_format(file), candidates i.. of FORMATS.
RECURSIVE CheckFormatOnFile(_, _, _, _)
CheckFormatOnFile(st, rx, sel, i) ==
    IF i > Len(FORMATS)
    THEN [format |-> sel.format, regex |-> rx]
    ELSE LET name == FORMATS[i]
         IN IF name \in W3cExtendedFormat
            THEN LET q == CreateRegexEnd(st, 0)
                 IN IF q = NoReturn
                    THEN [format |-> NoReturn, regex |-> rx]
                    ELSE LET rx2 == IF st[q] \in FieldsLines
                                    THEN [rx EXCEPT ![name] = st[q]]
                                    ELSE rx
                             match == IF rx2[name] = NoRegex
                                      THEN NoMatch
                                      ELSE check_format_line(name, rx2[name],
                                                             ReadLine(st, q))
                         IN CheckFormatOnFile(st, rx2, Select(sel, match, i), i + 1)
            ELSE LET match == IF name = "ovh"
                              THEN Skipped
                              ELSE check_format_line(name, NoRegex, ReadLine(st, 0))
                 IN CheckFormatOnFile(st, rx, Select(sel, match, i), i + 1)

\* Parser.check_format(line) for a line of kind k, candidates i.. of FORMATS.
RECURSIVE CheckFormatOnLine(_, _, _, _)
CheckFormatOnLine(k, rx, sel, i) ==
    IF i > Len(FORMATS)
    THEN sel.format
    ELSE LET name == FORMATS[i]
             match == IF name = "ovh"
                      THEN Skipped
                      ELSE check_format_line(
                               name,
                               IF name \in W3cExtendedFormat THEN rx[name] ELSE NoRegex,
                               k)
         IN CheckFormatOnLine(k, rx, Select(sel, match, i), i + 1)

\* Parser.detect_format: the loop over the lines, from line p + 1.
RECURSIVE DetectOnLines(_, _, _)
DetectOnLines(st, rx, p) ==
    IF p >= Len(st) \/ p >= DetectLimit
    THEN 0
    ELSE LET f == CheckFormatOnLine(st[p + 1], rx, NoSelection, 1)
         IN IF f # 0 THEN f ELSE DetectOnLines(st, rx, p + 1)

\* Parser.detect_format: the format (0: None, NoReturn: no return) and the
\* regexes of the format objects afterwards.
DetectFormat(st, rx) ==
    LET r == CheckFormatOnFile(st, rx, NoSelection, 1)
    IN IF r.format # 0
       THEN r
       ELSE [format |-> DetectOnLines(st, r.regex, 0), regex |-> r.regex]

\* ------------------------------------------------------------ Recorder
\* Recorder._get_hit_args: the tracking arguments of one hit (the url and
\* client data of the line it came from; 'download' only for downloads).
GetHitArgs(h) ==
    [id |-> <<h.filename, h.lineno>>, download |-> h.is_download]

\* The payload built in reverse order.
BuildRequests_Reversed(hs) ==
    [i \in 1..Len(hs) |-> GetHitArgs(hs[Len(hs) + 1 - i])]

\* Recorder._record_hits: data['requests']
BuildRequests(hs) == [i \in 1..Len(hs) |-> GetHitArgs(hs[i])]

\* Recorder._record_hits passes expected_content=None to Matomo.call.
expected_content == "None"

\* The collector has tracked the first k requests of a payload.
Track(reqs, k) ==
    [id \in HitIds |->
        delivered[id] + Cardinality({i \in 1..k : reqs[i].id = id})]

\* The process is alive: recorder threads are daemon threads of main.
Alive == main_pc # "done"

\* The retry test off by one.
MayRetry_OffByOne(e) == e <= max_attempts

\* Matomo._call_wrapper: errors < max_attempts
MayRetry(e) == e < max_attempts

\* Reading the head of the queue without removing it.
Dequeue_Peek(q) == q

\* Recorder.queue.get(): the queue after the head has been taken.
Dequeue(q) == Tail(q)

\* The threshold test with > in place of >=.
ReachedThreshold_Strict(n) == n > Threshold

\* Recorder._run_bulk: len(self.hits) >= self.threshold
ReachedThreshold(n) == n >= Threshold

\* The loop going on after the sentinel.
AfterFlush_NoBreak(wasSentinel) == "get"

\* Recorder._run_bulk: where the loop goes after _record_hits has returned
\* (or was not called): break after the sentinel, else the next queue.get().
AfterFlush(wasSentinel) == IF wasSentinel THEN "finished" ELSE "get"

\* The batch kept after a flush.
ClearHits_Skipped(hs) == hs

\* Recorder._record_hits: self.hits.clear()
ClearHits(hs) == <<>>

\* _record_hits calling the transport for an empty batch too.
HasHits_Always(batch) == TRUE

\* Recorder._record_hits: if len(self.hits) == 0: return
HasHits(batch) == Len(batch) # 0

\* Recorder._run_bulk: one iteration up to the transport call, i.e.
\* queue.get(), the append and threshold test, the start of _record_hits.
RecGet(r) ==
    /\ Alive
    /\ pc[r] = "get"
    /\ queue # <<>>
    /\ queue' = Dequeue(queue)
    /\ LET item == Head(queue)
           batch == IF item = NoneItem THEN hits[r] ELSE Append(hits[r], item)
           flush == IF item = NoneItem
                    THEN HasHits(batch)
                    ELSE ReachedThreshold(Len(batch))
       IN /\ hits' = [hits EXCEPT ![r] = batch]
          /\ final' = [final EXCEPT ![r] = (item = NoneItem)]
          /\ requests' = [requests EXCEPT ![r] =
                            IF flush THEN BuildRequests(batch) ELSE <<>>]
          /\ pc' = [pc EXCEPT ![r] =
                      IF flush THEN "call" ELSE AfterFlush(item = NoneItem)]
          /\ dequeued' = IF item = NoneItem THEN dequeued
                         ELSE [dequeued EXCEPT ![<<item.filename, item.lineno>>] = @ + 1]
    /\ UNCHANGED <<respVars, lines_read, hitVars, otfVars, detVars, cfgVars, stateVars, mainVars, parseStats, count_lines_recorded,
                   summary_recorded, errors, attempts, delays, adv_left, adv_tmp,
                   delivered, enqueued, afterStop>>

\* The collector has tracked the requests of a payload that it did not flag.
TrackAccepted(reqs, inv) ==
    [id \in HitIds |->
        delivered[id] +
        Cardinality({i \in 1..Len(reqs) : reqs[i].id = id /\ (i - 1) \notin inv})]

\* Recorder._record_hits: [str(self.hits[index].lineno) for index in
\* response['invalid_indices']] raises IndexError on an index that is not a
\* position of the batch.
InvalidIndexError(resp, hs) ==
    resp.kind = "invalid_indices" /\ \E i \in resp.indices : i >= Len(hs)

\* The counter advanced by the threshold, whatever the batch holds.
AdvanceLength_Threshold(hs) == Threshold

\* Recorder._record_hits: stats.count_lines_recorded.advance(len(self.hits))
AdvanceLength(hs) == Len(hs)

\* Matomo._call_wrapper: one pass of the retry loop, i.e. one request sent by
\* Matomo._call with the current data['requests'] and what follows from its
\* outcome.  The collector tracks a prefix of the payload before the request
\* succeeds ("ok"), fails with a retriable error ("fail") or fails with
\* another exception ("exc").  _fake_request sends nothing and answers {}.
\* When the call has returned, _record_hits decodes the response (one of
\* Resp from the collector) and looks for flagged requests; the line
\* stats.invalid_lines.extend(invalid_lines) is commented out.
RecAttempt(r, Resp) ==
    /\ Alive
    /\ pc[r] = "call"
    /\ attempts' = [attempts EXCEPT ![r] = @ + 1]
    /\ \E outcome \in (IF send_request = "_fake_request"
                       THEN {"ok"} ELSE {"ok", "fail", "exc"}),
          k \in 0..Len(requests[r]),
          resp \in Resp :
         /\ send_request = "_fake_request" => (k = 0 /\ resp = EmptyResponse)
         /\ (send_request = "_real_request" /\ outcome = "ok") => k = Len(requests[r])
         /\ outcome # "ok" => resp = EmptyResponse
         /\ delivered' = IF send_request = "_real_request" /\ outcome = "ok"
                         THEN TrackAccepted(requests[r], resp.indices)
                         ELSE Track(requests[r], k)
         /\ LET mismatch == outcome = "ok" /\ expected_content # "None"
                failed == outcome = "fail" \/ mismatch
                returned == outcome = "ok" /\ ~mismatch
                raised == outcome = "exc" \/
                          (returned /\ InvalidIndexError(resp, hits[r]))
            IN /\ requests' = [requests EXCEPT ![r] =
                                 IF mismatch THEN OnTrackingFailure(@, k) ELSE @]
               /\ errors' = [errors EXCEPT ![r] = IF failed THEN @ + 1 ELSE @]
               /\ delays' = [delays EXCEPT ![r] =
                               IF failed /\ MayRetry(errors[r] + 1) THEN @ + 1 ELSE @]
               /\ pc' = [pc EXCEPT ![r] =
                           IF failed
                           THEN IF MayRetry(errors[r] + 1) THEN "call" ELSE "error"
                           ELSE IF raised THEN "exception" ELSE "advance"]
               /\ adv_left' = [adv_left EXCEPT ![r] =
                                 IF returned /\ ~raised THEN AdvanceLength(hits[r]) ELSE @]
               /\ response' = [response EXCEPT ![r] = IF returned THEN resp ELSE @]
    /\ invalid_lines' = invalid_lines
    /\ UNCHANGED <<lines_read, hitVars, otfVars, detVars, cfgVars, dequeued, stateVars, mainVars, queue, parseStats,
                   count_lines_recorded, summary_recorded, hits, final, adv_tmp,
                   enqueued, afterStop>>

\* Recorder._run_bulk: except Matomo.Error: state.stop(...hits[0].filename); break
RecHandleError(r) ==
    /\ Alive
    /\ pc[r] = "error"
    /\ IF hits[r] = <<>>
       THEN /\ pc' = [pc EXCEPT ![r] = "crashed"]
            /\ UNCHANGED stateVars
       ELSE /\ pc' = [pc EXCEPT ![r] = "failed"]
            /\ StateStop(<<"Encountered error", hits[r][1].filename>>)
    /\ errors' = [errors EXCEPT ![r] = 0]
    /\ attempts' = [attempts EXCEPT ![r] = 0]
    /\ delays' = [delays EXCEPT ![r] = 0]
    /\ UNCHANGED <<respVars, lines_read, hitVars, otfVars, detVars, cfgVars, dequeued, mainVars, queue, parseStats, count_lines_recorded,
                   summary_recorded, hits, requests, final, adv_left, adv_tmp,
                   delivered, enqueued, afterStop>>

\* The stop of the Exception branch giving a reason.
ExceptionStop_WithReason == StateStop(<<"Failed to process hit">>)

\* Recorder._run_bulk, except Exception: state.stop()
ExceptionStop == StateStop(NoReason)

\* Recorder._run_bulk: except Exception: state.stop(); break
RecHandleException(r) ==
    /\ Alive
    /\ pc[r] = "exception"
    /\ pc' = [pc EXCEPT ![r] = "failed_exc"]
    /\ ExceptionStop
    /\ errors' = [errors EXCEPT ![r] = 0]
    /\ attempts' = [attempts EXCEPT ![r] = 0]
    /\ delays' = [delays EXCEPT ![r] = 0]
    /\ UNCHANGED <<respVars, lines_read, hitVars, otfVars, detVars, cfgVars, dequeued, mainVars, queue, parseStats, count_lines_recorded,
                   summary_recorded, hits, requests, final, adv_left, adv_tmp,
                   delivered, enqueued, afterStop>>

\* Statistics.Counter.increment, first half: next(self.counter)
RecAdvanceNext(r) ==
    /\ Alive
    /\ pc[r] = "advance"
    /\ adv_tmp' = [adv_tmp EXCEPT ![r] = count_lines_recorded.counter + 1]
    /\ count_lines_recorded' =
          [count_lines_recorded EXCEPT !.counter = @ + 1]
    /\ pc' = [pc EXCEPT ![r] = "store"]
    /\ errors' = [errors EXCEPT ![r] = 0]
    /\ attempts' = [attempts EXCEPT ![r] = 0]
    /\ delays' = [delays EXCEPT ![r] = 0]
    /\ UNCHANGED <<respVars, lines_read, hitVars, otfVars, detVars, cfgVars, dequeued, stateVars, mainVars, queue, parseStats,
                   summary_recorded, hits, requests, final, adv_left, delivered,
                   enqueued, afterStop>>

\* Statistics.Counter.increment, second half: self.value = ...; after the
\* last increment of advance(len(self.hits)), self.hits.clear() and return.
RecAdvanceStore(r) ==
    /\ Alive
    /\ pc[r] = "store"
    /\ count_lines_recorded' =
          [count_lines_recorded EXCEPT !.value = adv_tmp[r]]
    /\ adv_tmp' = [adv_tmp EXCEPT ![r] = 0]
    /\ adv_left' = [adv_left EXCEPT ![r] = @ - 1]
    /\ IF adv_left[r] - 1 > 0
       THEN /\ pc' = [pc EXCEPT ![r] = "advance"]
            /\ UNCHANGED <<hits, requests>>
       ELSE /\ pc' = [pc EXCEPT ![r] = AfterFlush(final[r])]
            /\ hits' = [hits EXCEPT ![r] = ClearHits(@)]
            /\ requests' = [requests EXCEPT ![r] = <<>>]
    /\ response' = [response EXCEPT ![r] =
                      IF adv_left[r] - 1 > 0 THEN @ ELSE NoResponse]
    /\ invalid_lines' = invalid_lines
    /\ UNCHANGED <<lines_read, hitVars, otfVars, detVars, cfgVars, dequeued, stateVars, mainVars, queue, parseStats,
                   summary_recorded, final, errors, attempts, delays, delivered,
                   enqueued, afterStop>>

\* ------------------------------------------------------------ specification
Next ==
    \/ MainStart
    \/ MainCheckFile
    \/ MainParse
    \/ MainLoop
    \/ MainRead(PipelineLines)
    \/ MainProcess
    \/ MainWaitPut
    \/ MainWaitQueue
    \/ MainWaitState
    \/ MainInterrupt
    \/ MainFinally
    \/ MainSummary
    \/ \E r \in Recorders : RecGet(r)
    \/ \E r \in Recorders : RecAttempt(r, {EmptyResponse})
    \/ \E r \in Recorders : RecHandleError(r)
    \/ \E r \in Recorders : RecHandleException(r)
    \/ \E r \in Recorders : RecAdvanceNext(r)
    \/ \E r \in Recorders : RecAdvanceStore(r)

Spec == Init /\ [][Next]_vars

\* The parser on every kind of line, with the pipeline behind it on a
\* transport that never fails (dry run) and no interrupt.
InitParse == Init /\ dry_run /\ max_attempts = 1

\* ------------------------------------------------------------ _on_tracking_failure
\* The responses given to _on_tracking_failure: bytes that are not JSON, or
\* a JSON object with or without 'tracked' (-1: without) and 'message'.
NoTracked == -1
TrackingResponses ==
    [json : {FALSE}, tracked : {NoTracked}, message : {FALSE}] \cup
    [json : {TRUE}, tracked : {NoTracked} \cup (0..(MaxRequests + 1)),
     message : BOOLEAN]

\* Payloads of requests, named by the position of their hit in the batch.
TrackingPayloads ==
    UNION {[1..n -> 1..MaxRequests] : n \in 0..MaxRequests}

\* The call with every argument it can get.
InitTracking ==
    /\ PipelineInit /\ dry_run /\ max_attempts = 1
    /\ HitIdle
    /\ otf_pc = "call"
    /\ otf_response \in TrackingResponses
    /\ otf_requests \in TrackingPayloads
    /\ otf_data = otf_requests
    /\ otf_ret = "None"

\* Recorder._on_tracking_failure: a response that is not JSON is returned
\* as it is; else response['tracked'] (KeyError without it) cuts
\* data['requests'] and response['message'] (KeyError without it) is
\* returned.
OtfCall ==
    /\ otf_pc = "call"
    /\ otf_pc' = "returned"
    /\ IF ~otf_response.json
       THEN otf_data' = otf_data /\ otf_ret' = "response"
       ELSE IF otf_response.tracked = NoTracked
            THEN otf_data' = otf_data /\ otf_ret' = "KeyError"
            ELSE /\ otf_data' = OnTrackingFailure(otf_data, otf_response.tracked)
                 /\ otf_ret' = IF otf_response.message THEN "message" ELSE "KeyError"
    /\ UNCHANGED <<otf_response, otf_requests, hitVars, respVars, lines_read, detVars, cfgVars,
                   stateVars, mainVars, queue, parseStats, count_lines_recorded,
                   summary_recorded, recVars, delivered, enqueued, dequeued,
                   afterStop>>

NextTracking == OtfCall

\* ------------------------------------------------------------ the hit of a line
\* Parser.parse has matched a line and constructed its Hit.
InitHit ==
    /\ PipelineInit /\ dry_run /\ max_attempts = 1
    /\ OtfIdle
    /\ fields \in HitInputs
    /\ hit = NewHit(fields.status)
    /\ hit_pc = "generation_time"
    /\ IpIdle
    /\ TzIdle

hitOther == <<fields, ipVars, tzVars, otfVars, respVars, lines_read, detVars, cfgVars,
              stateVars, mainVars, queue, count_lines_parsed, count_lines_static,
              count_lines_downloads, count_lines_recorded, summary_recorded,
              recVars, delivered, enqueued, dequeued, afterStop>>
hitRest == <<hitOther, count_lines_skipped_user_agent>>

\* Where parse is after a statement that leaves the hit h.
HitNext(h, next) == IF h.raised = "None" THEN next ELSE "raised"

\* Parser.parse: the try blocks that set hit.generation_time_milli.
HitGenerationTime ==
    /\ hit_pc = "generation_time"
    /\ LET g == GenerationTime(fields)
           h == [hit EXCEPT !.generation_time = g.value, !.gt_source = g.source,
                            !.raised = g.raised]
       IN hit' = h /\ hit_pc' = HitNext(h, "check_download")
    /\ UNCHANGED hitRest

\* The check_* methods, in the order of inspect.getmembers.
HitCheckDownload ==
    /\ hit_pc = "check_download"
    /\ LET h == CheckDownload(fields.download, 1, hit)
       IN hit' = h /\ hit_pc' = HitNext(h, "check_http_error")
    /\ UNCHANGED hitRest

HitCheckHttpError ==
    /\ hit_pc = "check_http_error"
    /\ LET h == IF StatusIndexError(hit.status)
                THEN [hit EXCEPT !.raised = "IndexError"]
                ELSE [hit EXCEPT !.is_error = check_http_error(hit.status)]
       IN hit' = h /\ hit_pc' = HitNext(h, "check_http_redirect")
    /\ UNCHANGED hitRest

HitCheckHttpRedirect ==
    /\ hit_pc = "check_http_redirect"
    /\ hit' = [hit EXCEPT !.is_redirect = check_http_redirect(hit.status)]
    /\ hit_pc' = "check_static"
    /\ UNCHANGED hitRest

HitCheckStatic ==
    /\ hit_pc = "check_static"
    /\ LET h == CheckStatic(fields.meta, 1, hit)
       IN hit' = h /\ hit_pc' = HitNext(h, "check_user_agent")
    /\ UNCHANGED hitRest

HitCheckUserAgent ==
    /\ hit_pc = "check_user_agent"
    /\ hit' = [hit EXCEPT !.is_robot = fields.robot]
    /\ count_lines_skipped_user_agent' =
          IF fields.robot THEN count_lines_skipped_user_agent + 1
          ELSE count_lines_skipped_user_agent
    /\ hit_pc' = "checked"
    /\ UNCHANGED hitOther

NextHit ==
    \/ HitGenerationTime
    \/ HitCheckDownload
    \/ HitCheckHttpError
    \/ HitCheckHttpRedirect
    \/ HitCheckStatic
    \/ HitCheckUserAgent

SpecHit == InitHit /\ [][NextHit]_vars

\* ------------------------------------------------------------ the client address
\* Parser.parse has matched a line whose format gives the address ip.
InitIp ==
    /\ PipelineInit /\ dry_run /\ max_attempts = 1
    /\ OtfIdle
    /\ hit_pc = "idle" /\ fields = NoFields /\ hit = NewHit(<<>>)
    /\ ip_pc = "get"
    /\ ip_anonymization \in BOOLEAN
    /\ ip \in IpStrings(MaxIpLen)
    /\ hit_ip = NoIp
    /\ TzIdle

\* hit.ip = format.get('ip'), then the anonymization if it is configured.
HitIp ==
    /\ ip_pc = "get"
    /\ hit_ip' = IF ip_anonymization THEN Anonymize(ip) ELSE ip
    /\ ip_pc' = "done"
    /\ UNCHANGED <<ip_anonymization, ip, tzVars, hit_pc, fields, hit, otfVars, respVars,
                   lines_read, detVars, cfgVars, stateVars, mainVars, queue,
                   parseStats, count_lines_recorded, summary_recorded, recVars,
                   delivered, enqueued, dequeued, afterStop>>

NextIp == HitIp

SpecIp == InitIp /\ [][NextIp]_vars

\* ------------------------------------------------------------ the date
\* Parser.parse has set hit.date = format.parseTime(date_string).
InitTz ==
    /\ PipelineInit /\ dry_run /\ max_attempts = 1
    /\ OtfIdle
    /\ hit_pc = "idle" /\ fields = NoFields /\ hit = NewHit(<<>>)
    /\ IpIdle
    /\ tz_pc = "timezone"
    /\ timezone \in Timezones \cup {NoTimezone}
    /\ date_local \in LocalTimes
    /\ hit_date = date_local

\* timezone = float(format.get('timezone')) (0 without the group);
\* if timezone: hit.date -= datetime.timedelta(hours=timezone/100)
HitTimezone ==
    /\ tz_pc = "timezone"
    /\ LET tz == TimezoneFloat(timezone)
       IN hit_date' = IF tz # 0 THEN hit_date - TimezoneDelta(tz) ELSE hit_date
    /\ tz_pc' = "done"
    /\ UNCHANGED <<date_local, timezone, ipVars, hit_pc, fields, hit, otfVars, respVars,
                   lines_read, detVars, cfgVars, stateVars, mainVars, queue,
                   parseStats, count_lines_recorded, summary_recorded, recVars,
                   delivered, enqueued, dequeued, afterStop>>

NextTz == HitTimezone

SpecTz == InitTz /\ [][NextTz]_vars

SpecTracking == InitTracking /\ [][NextTracking]_vars

NextParse ==
    \/ MainStart
    \/ MainCheckFile
    \/ MainParse
    \/ MainLoop
    \/ MainRead(Lines)
    \/ MainProcess
    \/ MainRaised
    \/ MainWaitPut
    \/ MainWaitQueue
    \/ MainWaitState
    \/ MainFinally
    \/ MainSummary
    \/ \E r \in Recorders : RecGet(r)
    \/ \E r \in Recorders : RecAttempt(r, {EmptyResponse})
    \/ \E r \in Recorders : RecAdvanceNext(r)
    \/ \E r \in Recorders : RecAdvanceStore(r)

SpecParse == InitParse /\ [][NextParse]_vars

\* The pipeline on a collector that may flag requests of a batch it accepts
\* (real requests, no retry, no interrupt).
InitInvalid == Init /\ ~dry_run /\ max_attempts = 1

NextInvalid ==
    \/ MainStart
    \/ MainCheckFile
    \/ MainParse
    \/ MainLoop
    \/ MainRead(PipelineLines)
    \/ MainProcess
    \/ MainWaitPut
    \/ MainWaitQueue
    \/ MainWaitState
    \/ MainFinally
    \/ MainSummary
    \/ \E r \in Recorders : RecGet(r)
    \/ \E r \in Recorders : RecAttempt(r, Responses)
    \/ \E r \in Recorders : RecHandleError(r)
    \/ \E r \in Recorders : RecHandleException(r)
    \/ \E r \in Recorders : RecAdvanceNext(r)
    \/ \E r \in Recorders : RecAdvanceStore(r)

SpecInvalid == InitInvalid /\ [][NextInvalid]_vars

\* The run without transport failure and without interrupt, under fair
\* scheduling of the main thread and of every recorder thread.
MainLive ==
    \/ MainStart
    \/ MainCheckFile
    \/ MainParse
    \/ MainLoop
    \/ MainRead(PipelineLines)
    \/ MainProcess
    \/ MainWaitPut
    \/ MainWaitQueue
    \/ MainWaitState
    \/ MainFinally
    \/ MainSummary

RecLive(r) ==
    \/ RecGet(r)
    \/ RecAttempt(r, {EmptyResponse})
    \/ RecAdvanceNext(r)
    \/ RecAdvanceStore(r)

NextLive == MainLive \/ \E r \in Recorders : RecLive(r)

\* The pipeline of SpecLive with --skip set.
InitSkip ==
    /\ PipelineStart(0..MaxSkip) /\ OtfIdle /\ HitIdle
    /\ dry_run /\ max_attempts = 1

SpecSkip == InitSkip /\ [][NextLive]_vars

SpecLive ==
    /\ InitParse
    /\ [][NextLive]_vars
    /\ WF_vars(MainLive)
    /\ \A r \in Recorders : WF_vars(RecLive(r))

\* The parsing thread with detect_format in full on every file it opens.
NextDetect ==
    \/ MainStart
    \/ MainCheckFile
    \/ DetOpen
    \/ DetCheckFile
    \/ DetCreateRegex
    \/ DetW3cCheck
    \/ DetCheckLine
    \/ DetCheckFormatReturn
    \/ DetLineLoop
    \/ DetReturn
    \/ MainLoop
    \/ MainRead(PipelineLines)
    \/ MainProcess

SpecDetect == InitParse /\ [][NextDetect]_vars

TypeOK ==
    /\ stopped \in BOOLEAN
    /\ summary_recorded \in -1..(NumFiles * MaxLines)

\* ------------------------------------------------------------ claims
Range(q) == {q[i] : i \in 1..Len(q)}
HitsOf(q) == Range(q) \ {NoneItem}

\* The step is the body of the line loop finishing the line held in `line`.
ProcessStep == main_pc = "process" /\ main_pc' = "loop"

\* The eligibility criterion as the claim states it.
C1_Eligible(h) == (~h.is_robot) /\ (~h.is_redirect) /\ (h.is_meta \/ h.is_download)

\* C1: in Parser.parse a line that yields a valid hit puts that hit on
\* Recorder.queue if and only if the hit is not a robot hit, not a redirect,
\* and is_meta or is_download is set; no other hit is ever enqueued (an
\* invalid line enqueues nothing, and no other step adds a hit to the queue).
C1_EnqueueIffDeliverable ==
    [][ /\ ProcessStep =>
             LET h == MakeHit(fileIdx, lineno, line)
             IN /\ ValidLine(line) =>
                      ((queue' = Append(queue, h)) <=> C1_Eligible(h))
                /\ queue' = queue \/ (ValidLine(line) /\ queue' = Append(queue, h))
        /\ (~ProcessStep) => HitsOf(queue') \subseteq HitsOf(queue)
      ]_vars

\* A valid robot download was read and not enqueued, a valid hit was enqueued.
C1_Witness ==
    /\ main_pc = "loop"
    /\ count_lines_parsed = 2
    /\ count_lines_skipped_user_agent = 1
    /\ Len(enqueued) = 1
    /\ enqueued[1].is_meta /\ ~enqueued[1].is_download

\* C2: across the retried attempts of one batch each hit is delivered at most
\* once: after the collector tracked the first k requests of a failed attempt
\* the next attempt re-sends only requests k+1..n, so no hit is ever tracked
\* twice.
C2_AtMostOnceDelivery == \A id \in HitIds : delivered[id] <= 1

\* C3: in a run without transport failure (dry run, not interrupted) the
\* recorded count read by the final summary equals the number of hits
\* enqueued, and no enqueued hit is left in the queue or in a batch.
C3_SummaryCountsAllEnqueued ==
    (main_pc = "done" /\ dry_run /\ reason = NoReason) =>
        /\ summary_recorded = Len(enqueued)
        /\ HitsOf(queue) = {}
        /\ \A r \in Recorders : hits[r] = <<>>

\* C4: when every attempt fails with a retriable error, _call_wrapper raises
\* Matomo.Error after exactly max_attempts attempts and max_attempts - 1
\* delays; it never makes more attempts than max_attempts, and the number of
\* delays is always the number of failed attempts that were retried.
C4_ExactlyMaxAttempts ==
    \A r \in Recorders :
        /\ attempts[r] <= max_attempts
        /\ pc[r] = "call" => delays[r] = errors[r] /\ attempts[r] = errors[r]
        /\ pc[r] = "error" =>
              /\ attempts[r] = max_attempts
              /\ errors[r] = max_attempts
              /\ delays[r] = max_attempts - 1

\* A call has raised Matomo.Error with the largest configured maximum.
C4_Witness ==
    \E r \in Recorders : pc[r] = "error" /\ max_attempts = MaxAttempts

\* C5 as stated: a recorder that exhausts its retries sets the stop flag and
\* exits; once the flag is set the parsing thread enqueues at most one further
\* hit, reads at most the line already under way, and main starts parsing no
\* further file.
C5_NoFurtherFile ==
    /\ \A r \in Recorders : pc[r] = "failed" => stopped
    /\ afterStop.hits <= 1
    /\ afterStop.lines <= 1
    /\ afterStop.files = 0

\* C5 amended: a recorder that exhausts its retries sets the stop flag and
\* exits; once the flag is set the parsing thread enqueues at most one further
\* hit and its line loop reads at most one further line (the one whose stop
\* test had passed); main starts parsing at most one further file (the one
\* whose stop test in main had passed), and the line loop reads no line of it.
C5_AtMostOneMore ==
    /\ \A r \in Recorders : pc[r] = "failed" => stopped
    /\ afterStop.hits <= 1
    /\ afterStop.lines <= 1
    /\ afterStop.files <= 1
    /\ afterStop.files = 1 => (afterStop.lines = 0 /\ afterStop.hits = 0)

\* A recorder exhausted its retries and stopped the run, and the parsing
\* thread enqueued the hit of the line it was working on.
C5_Witness ==
    /\ \E r \in Recorders : pc[r] = "failed"
    /\ Len(reason) = 2
    /\ afterStop.hits = 1

\* C6: after State.start() the flag goes from false to true once and stays
\* true; a stop call on a stopped state changes neither flag nor reason, so
\* the reason is the argument of the stop call that set the flag; at the end
\* of main the flag is set.
C6_StopOnceFirstReasonWins ==
    [][ /\ (main_pc # "start" /\ stopped) => (stopped' /\ reason' = reason)
        /\ (~stopped /\ stopped') =>
              \/ /\ main_pc = "finally" /\ main_pc' = "summary"
                 /\ reason' = NoReason
              \/ /\ main_pc # "finally" /\ main_pc' = "finally"
                 /\ reason' = <<"Interrupted">>
              \/ \E r \in Recorders :
                    /\ pc[r] = "error" /\ pc'[r] = "failed"
                    /\ reason' = <<"Encountered error", hits[r][1].filename>>
              \/ \E r \in Recorders :
                    /\ pc[r] = "exception" /\ pc'[r] = "failed_exc"
                    /\ reason' = NoReason
        /\ main_pc' = "done" => stopped'
      ]_vars

\* The interrupt handler set the reason; a recorder's later stop call and the
\* stop call of main's finally clause left it alone.
C6_Witness ==
    /\ main_pc = "summary"
    /\ reason = <<"Interrupted">>
    /\ \E r \in Recorders : pc[r] = "failed"

\* C7: once no increment is under way, Counter.value equals the number of
\* increments performed.
C7_ValueEqualsIncrements ==
    (\A r \in Recorders : pc[r] \notin {"advance", "store"}) =>
        count_lines_recorded.value = count_lines_recorded.counter

\* C8: Counter.value never decreases.
C8_ValueMonotonic ==
    [][count_lines_recorded'.value >= count_lines_recorded.value]_vars

\* C9: once the stop flag is set (here: by a recorder that exhausted its
\* retries) no recorder starts a transport call.
C9_NoCallAfterStop ==
    [][ (stopped /\ \E f \in Recorders : pc[f] = "failed") =>
            \A r \in Recorders : ~(pc[r] = "get" /\ pc'[r] = "call") ]_vars

\* C10: when a recorder thread has ended on a fatal transport error or an
\* unexpected exception, the final state is stopped with a non-empty reason.
C10_FailureHasReason ==
    (main_pc = "done" /\ \E r \in Recorders : pc[r] \in {"failed", "failed_exc"}) =>
        (stopped /\ reason # NoReason)

\* ------------------------------------------------------------ batches
HitId(h) == <<h.filename, h.lineno>>

\* The number of sentinels in q.
Sentinels(q) == Cardinality({i \in 1..Len(q) : q[i] = NoneItem})

\* C11 as stated: after _record_hits has finished, by return or by raising
\* Matomo.Error, the recorder's batch is empty.
C11_ClearedAfterEveryFlush ==
    \A r \in Recorders :
        pc[r] \in {"finished", "error", "failed"} => hits[r] = <<>>

\* C11 amended: when _record_hits returns the recorder's batch is empty; when
\* it ends by raising Matomo.Error the batch still holds every hit of the
\* failed flush, and it keeps them when the recorder has terminated.
C11_ClearedAfterReturn ==
    [][ \A r \in Recorders :
          /\ (pc[r] = "store" /\ pc'[r] \in {"get", "finished"}) => hits'[r] = <<>>
          /\ (pc[r] = "get" /\ pc'[r] = "finished") => hits'[r] = <<>>
          /\ (pc[r] = "call" /\ pc'[r] = "error") =>
                (hits'[r] = hits[r] /\ Len(hits[r]) = Len(requests[r]) /\ hits[r] # <<>>)
          /\ (pc[r] = "error" /\ pc'[r] = "failed") =>
                (hits'[r] = hits[r] /\ hits[r] # <<>>)
      ]_vars

\* One recorder has returned from a flush with an empty batch and is done,
\* another has failed a flush of a full batch and still holds it.
C11_Witness ==
    \E r, q \in Recorders :
        /\ pc[r] = "failed" /\ Len(hits[r]) = Threshold
        /\ pc[q] = "finished" /\ hits[q] = <<>>
        /\ count_lines_recorded.counter > 0

\* C12: a recorder's batch never holds more hits than the threshold: a hit is
\* appended only to a batch below the threshold, and the append that makes the
\* length reach the threshold starts a flush at once.
C12_BatchWithinThreshold ==
    [][ \A r \in Recorders :
          /\ Len(hits'[r]) <= Threshold
          /\ Len(hits'[r]) = Len(hits[r]) + 1 =>
                /\ Len(hits[r]) < Threshold
                /\ (Len(hits'[r]) = Threshold) <=> (pc'[r] = "call")
      ]_vars

\* An append has filled a batch and started its flush.
C12_Witness ==
    \E r \in Recorders :
        pc[r] = "call" /\ ~final[r] /\ Len(hits[r]) = Threshold /\ attempts[r] = 0

\* C13: a recorder that has dequeued the sentinel flushes its remaining batch
\* and terminates: when the run has ended, every recorder that took a sentinel
\* has made the transport call for its remaining hits and has terminated.
C13_SentinelFlushesAndEnds ==
    main_pc = "done" =>
        \A r \in Recorders :
            final[r] => pc[r] \in {"finished", "failed", "failed_exc"}

\* The part of C13 that is about the recorder's own control flow: the
\* recorder that dequeues the sentinel starts one transport call if its batch
\* is non-empty and none if it is empty, it never goes back to queue.get(),
\* and the sentinels taken off the queue are as many as the recorders that
\* have taken one.
C13_SentinelEndsRecorder ==
    [][ /\ \A r \in Recorders :
              /\ (pc[r] = "get" /\ final'[r]) =>
                    /\ hits'[r] = hits[r]
                    /\ pc'[r] = IF hits[r] = <<>> THEN "finished" ELSE "call"
              /\ final[r] =>
                    /\ final'[r]
                    /\ pc'[r] # "get"
                    /\ pc[r] # "call" => pc'[r] # "call"
        /\ Cardinality({r \in Recorders : final'[r]}) = sentinels' - Sentinels(queue')
      ]_vars

\* Every recorder has taken its sentinel and terminated, one of them after a
\* final flush.
C13_Witness ==
    /\ \A r \in Recorders : pc[r] = "finished" /\ final[r]
    /\ count_lines_recorded.counter > 0
    /\ queue = <<>>

\* C14: no hit is taken off the queue twice, no hit is in two batches or twice
\* in one batch, and when wait_empty returns in a run that has not been
\* stopped every enqueued hit has been dequeued exactly once.
C14_DequeuedExactlyOnce ==
    /\ \A id \in HitIds :
          /\ dequeued[id] <= 1
          /\ Cardinality({p \in Recorders \X (1..Threshold) :
                             /\ p[2] <= Len(hits[p[1]])
                             /\ HitId(hits[p[1]][p[2]]) = id}) <= 1
    /\ (main_pc = "finally" /\ ~stopped) =>
          \A i \in 1..Len(enqueued) : dequeued[HitId(enqueued[i])] = 1

\* wait_empty has returned in a run not stopped, and every recorder holds a
\* hit that it took off the queue.
C14_Witness ==
    /\ main_pc = "finally" /\ ~stopped
    /\ Len(enqueued) >= NumRecorders
    /\ \A r \in Recorders : hits[r] # <<>>

\* The position of hit h in the order of enqueuing.
EnqueuePos(h) == CHOOSE i \in 1..Len(enqueued) : enqueued[i] = h

\* C15: the requests of an outgoing payload are those of the recorder's
\* batch, in the order of the batch, and the batch holds hits in the order in
\* which they were enqueued.
C15_PayloadInEnqueueOrder ==
    \A r \in Recorders :
        /\ \A i \in 1..Len(hits[r]) : hits[r][i] \in Range(enqueued)
        /\ \A i, j \in 1..Len(hits[r]) :
              i < j => EnqueuePos(hits[r][i]) < EnqueuePos(hits[r][j])
        /\ pc[r] = "call" =>
              /\ Len(requests[r]) = Len(hits[r])
              /\ \A i \in 1..Len(hits[r]) : requests[r][i].id = HitId(hits[r][i])

\* A payload of two requests is about to be sent again after a failed attempt.
C15_Witness ==
    \E r \in Recorders :
        pc[r] = "call" /\ Len(requests[r]) = 2 /\ attempts[r] = 1

\* C16: wait_empty puts one sentinel per launched recorder before it starts
\* to wait, and it returns only when the queue is empty or the state stopped.
C16_WaitEmptyReturn ==
    [][ /\ (main_pc \in {"wait_queue", "wait_state"} /\ main_pc' = "finally") =>
              (queue' = <<>> \/ stopped')
        /\ (main_pc = "wait_put" /\ main_pc' = "wait_queue") =>
              sentinels = Cardinality(Recorders)
        /\ sentinels' <= Cardinality(Recorders)
        /\ sentinels' # sentinels =>
              (main_pc = "wait_put" /\ queue' = Append(queue, NoneItem))
      ]_vars

\* wait_empty has returned on the stop set by a failed recorder, with the
\* queue not yet drained.
C16_Witness ==
    /\ main_pc = "finally"
    /\ sentinels = NumRecorders
    /\ queue # <<>>
    /\ Len(reason) = 2

\* ------------------------------------------------------------ line failures
\* The line fails at the level of the line: it does not match the format, it
\* has no status, or its date or its timezone does not parse.
LineFailure(l) == (~l.match) \/ l.status = <<>> \/ (~l.date_ok) \/ (~l.tz_ok)

\* C19: a line-level parse failure only skips the line: the body of the line
\* loop ends with parse going on to the next line of the same file, nothing
\* enqueued, and nothing raised out of parse.
C19_LineFailureOnlySkips ==
    [][ (main_pc = "process" /\ LineFailure(line)) =>
            /\ main_pc' = "loop"
            /\ fileIdx' = fileIdx /\ lineno' = lineno
            /\ queue' = queue
      ]_vars

\* ------------------------------------------------------------ detection
\* C17: detect_format terminates on every finite file: it returns a format,
\* or none after the end of the file or 100000 lines.  In particular the end
\* of the file ends its loops: once readline() has returned '' inside
\* create_regex, create_regex does not call readline() again.
C17_DetectEndsAtEof == eof_reads <= 1

\* C18: when detect_format returns no format, Parser.parse returns with
\* nothing enqueued for the file and the stop flag as it was, and main goes on
\* to its next file, which it parses unless the run has been stopped.
C18_DetectFailureSkipsFile ==
    [][ /\ (det_pc = "return" /\ det_format = 0) =>
              /\ main_pc' = "check_file"
              /\ fileIdx' = fileIdx + 1
              /\ stopped' = stopped /\ reason' = reason
              /\ queue' = queue /\ enqueued' = enqueued
        /\ (main_pc = "check_file" /\ fileIdx <= NumFiles /\ ~stopped) =>
              main_pc' = "parse"
        /\ \A i \in 1..Len(enqueued') : enqueued'[i].filename \notin undetected'
      ]_vars

\* The first file had no format, and a hit of the second file is enqueued.
C18_Witness ==
    /\ 1 \in undetected
    /\ ~stopped
    /\ \E i \in 1..Len(enqueued) : enqueued[i].filename = 2

\* check_format has examined every candidate and is about to return.
CheckFormatReturning ==
    det_pc \in {"cf_file", "cf_line"} /\ cf_i = Len(FORMATS) + 1

\* The auto-detectable formats that matched in this check_format.
Matching ==
    {i \in 1..Len(FORMATS) : cf_matches[i].m \in {"match", "True"}}

\* The first format of S, in the order of the catalogue, among those of S
\* whose match has the most groups; 0 (no format) when S is empty.
FirstWithMostGroups(S) ==
    IF S = {}
    THEN 0
    ELSE CHOOSE i \in S :
            /\ \A j \in S : cf_matches[j].n <= cf_matches[i].n
            /\ \A j \in S : cf_matches[j].n = cf_matches[i].n => i <= j

\* C20 as stated: check_format returns, among the auto-detectable formats
\* that match, the one whose match has the most groups, the first of them in
\* the order of the catalogue when several have as many.
C20_MostGroupsFirstWins ==
    CheckFormatReturning => cf_sel.format = FirstWithMostGroups(Matching)

\* C20 amended: check_format returns nginx_json when it matches (its match
\* has no groups, and it is the last auto-detectable format); otherwise,
\* among the matching formats whose match has at least one group, the one with
\* the most groups, the first in the order of the catalogue when several have
\* as many; and no format when no match has a group.
C20_MostGroupsAmongGrouped ==
    CheckFormatReturning =>
        cf_sel.format =
            IF \E i \in Matching : cf_matches[i].m = "True"
            THEN CHOOSE i \in Matching : cf_matches[i].m = "True"
            ELSE FirstWithMostGroups({i \in Matching : cf_matches[i].n >= 1})

\* A sample with the sc-win32-status field: w3c_extended matches, iis matches
\* with one group more and is selected.
C20_Witness ==
    /\ CheckFormatReturning
    /\ cf_sel.format > 0
    /\ FORMATS[cf_sel.format] = "iis"
    /\ cf_matches[5].m = "match"
    /\ cf_matches[5].n < cf_matches[7].n

\* ------------------------------------------------------------ responses
\* The recorder's call has returned with a response that flags requests.
Flagged(r) == pc[r] \in {"advance", "store"} /\ response[r].indices # {}

\* C21: when the collector accepts a batch but flags some of its requests
\* invalid, the recorder neither stops the run nor re-sends the batch, the
\* batch is counted as recorded and cleared, and the flagged requests are in
\* Statistics.invalid_lines for the final summary.
C21_InvalidLinesRecorded ==
    \A r \in Recorders : Flagged(r) => invalid_lines # <<>>

\* The part of C21 that is about the flow: a flagged response whose indices
\* are positions of the batch leads to the counting of the whole batch, its
\* clearing and the next queue.get() (or the end of the recorder), with no
\* failure handler and no second call.
C21_InvalidIsNonFatal ==
    [][ \A r \in Recorders :
          /\ (pc[r] = "call" /\ response'[r].indices # {}
                /\ ~InvalidIndexError(response'[r], hits[r])) =>
                /\ pc'[r] = "advance" /\ adv_left'[r] = Len(hits[r])
          /\ Flagged(r) =>
                /\ pc'[r] \in {"advance", "store", "get", "finished"}
                /\ pc'[r] \in {"get", "finished"} => hits'[r] = <<>>
      ]_vars

\* C22: with dry-run enabled every transport call is served by
\* _fake_request, which sends nothing and returns an empty success response:
\* the call returns at its first attempt with {}, the collector receives
\* nothing, and _real_request is never the sender.
C22_DryRunNeverSends ==
    [][ dry_run =>
          /\ send_request = "_fake_request"
          /\ delivered' = delivered
          /\ \A r \in Recorders :
                pc[r] = "call" =>
                    (pc'[r] \in {"call", "advance"} /\
                     (pc'[r] = "advance" =>
                         (attempts'[r] = 1 /\ errors'[r] = 0 /\
                          response'[r] = EmptyResponse)))
      ]_vars

\* A dry run in which a full batch has been flushed and counted.
C22_Witness ==
    /\ dry_run
    /\ main_pc = "done"
    /\ count_lines_recorded.value = Threshold
    /\ \A id \in HitIds : delivered[id] = 0

\* ------------------------------------------------------------ termination
\* C23: in a run without transport failure, under fair scheduling,
\* wait_empty eventually returns and every recorder eventually dequeues one
\* sentinel (all the sentinels put are taken, by as many recorders) and is
\* not waiting on the queue any more; this then remains so.
C23_RecordersEnd ==
    <>[]( /\ main_pc \in {"finally", "summary", "done"}
          /\ sentinels = Cardinality(Recorders)
          /\ Sentinels(queue) = 0
          /\ \A r \in Recorders : final[r] /\ pc[r] # "get" )

\* wait_empty has returned and both recorders have taken their sentinel, one
\* of them with a hit still to flush.
C23_Witness ==
    /\ main_pc = "finally"
    /\ \A r \in Recorders : final[r]
    /\ \E r \in Recorders : pc[r] = "call"
    /\ \E r \in Recorders : pc[r] = "finished"

\* ------------------------------------------------------------ truncation
\* C24: _on_tracking_failure, given a JSON response with tracked = k,
\* 0 <= k <= len(data['requests']), replaces data['requests'] by its last
\* len - k elements in their order; given a response that is not JSON it
\* leaves data['requests'] as it is.
C24_KeepsUntrackedTail ==
    otf_pc = "returned" =>
        /\ (otf_response.json /\ otf_response.tracked \in 0..Len(otf_requests)) =>
              /\ Len(otf_data) = Len(otf_requests) - otf_response.tracked
              /\ \A i \in 1..Len(otf_data) :
                    otf_data[i] = otf_requests[otf_response.tracked + i]
        /\ (~otf_response.json) => otf_data = otf_requests

\* A payload of three different requests of which the first was tracked.
C24_Witness ==
    /\ otf_pc = "returned"
    /\ otf_requests = <<1, 2, 3>>
    /\ otf_response.tracked = 1
    /\ otf_data = <<2, 3>>

\* ------------------------------------------------------------ files
\* The line matcher of format f (0: none) under the regexes rx.
LineMatcher(f, rx) ==
    IF f > 0 /\ FORMATS[f] \in W3cExtendedFormat THEN rx[FORMATS[f]] ELSE NoRegex

\* C25: the format detected for a file depends only on the contents of the
\* file: whatever files were processed before, detect_format returns the
\* format, with the line matcher, that it returns for these contents when
\* the format objects have seen no file.
C25_DetectionByContentOnly ==
    det_pc = "return" =>
        LET fresh == DetectFormat(stream, FreshRegex)
        IN /\ det_format = fresh.format
           /\ LineMatcher(det_format, regex) = LineMatcher(fresh.format, fresh.regex)

\* For the first file of the run, whose format objects have seen no file,
\* detect_format returns what DetectFormat computes.
C25_FirstFileAsFresh ==
    (det_pc = "return" /\ fileIdx = 1) =>
        LET fresh == DetectFormat(stream, FreshRegex)
        IN det_format = fresh.format /\ regex = fresh.regex

\* ------------------------------------------------------------ counters
\* The number of hits of q that satisfy P.
CountOf(q, P(_)) == Cardinality({i \in 1..Len(q) : P(q[i])})
IsDownload(h) == h.is_download
IsMeta(h) == h.is_meta

\* C26: count_lines_parsed is the number of lines that parse has read (the
\* line being processed is counted by the end of its processing, whatever
\* becomes of it), count_lines_downloads is the number of enqueued hits with
\* is_download and count_lines_static the number of enqueued hits with
\* is_meta: a line whose hit is not enqueued adds to neither.  This holds at
\* every line, so it holds of the growth over each file.
C26_CountersMatch ==
    /\ count_lines_parsed = lines_read - (IF main_pc = "process" THEN 1 ELSE 0)
    /\ count_lines_downloads = CountOf(enqueued, IsDownload)
    /\ count_lines_static = CountOf(enqueued, IsMeta)

\* parse has processed a file of two lines: one gave an enqueued hit that is
\* a download and metadata, the other put nothing on the queue.
C26_Witness ==
    /\ main_pc = "check_file" /\ fileIdx = 2
    /\ count_lines_parsed = 2
    /\ Len(enqueued) = 1
    /\ count_lines_downloads = 1 /\ count_lines_static = 1
    /\ count_lines_skipped_user_agent = 0

\* ------------------------------------------------------------ the checks of a hit
\* check_static has returned for the hit.
StaticDone == hit_pc \in {"check_user_agent", "checked"}

\* The custom variables that check_static added.
StaticVars == {i \in 1..Len(hit.cvar) : hit.cvar[i][2] = "metadata"}

\* C27 as stated: check_static sets is_meta and adds an oaipmhID page
\* custom variable for every hit whose path matches at least one metadata
\* pattern, and leaves is_meta false for every hit whose path matches none.
C27_MetaIffSomeMatch ==
    StaticDone =>
        LET matched == \E i \in 1..Len(fields.meta) : fields.meta[i] # "none"
        IN /\ matched => (hit.is_meta /\ StaticVars # {})
           /\ (~matched) => ~hit.is_meta

\* C27 amended: check_static sets is_meta exactly for the hits whose path
\* matches a metadata pattern with a non-empty identifier, and adds one
\* oaipmhID page custom variable for each such pattern, in the order of the
\* patterns; a match with an empty identifier marks nothing; and it raises,
\* at the first of them, if a matching pattern has no group 1.
C27_MetaIffIdentifier ==
    /\ StaticDone =>
          LET ids == {i \in 1..Len(fields.meta) : fields.meta[i] = "id"}
          IN /\ hit.is_meta <=> ids # {}
             /\ Cardinality(StaticVars) = Cardinality(ids)
             /\ \A i \in StaticVars : hit.cvar[i][1] = "oaipmhID" /\ hit.cvar[i][3] \in ids
             /\ \A i, j \in StaticVars : i < j => hit.cvar[i][3] < hit.cvar[j][3]
             /\ \A i \in 1..Len(fields.meta) : fields.meta[i] # "nogroup"
    /\ (hit_pc = "raised" /\ hit.raised = "IndexError" /\ hit.status # <<>>
          /\ \A i \in 1..Len(fields.download) : fields.download[i] # "nogroup") =>
          \E i \in 1..Len(fields.meta) : fields.meta[i] = "nogroup"

\* The path matches the first metadata pattern with an empty identifier and
\* the second with an identifier: the hit is metadata, with one variable.
C27_Witness ==
    /\ StaticDone
    /\ fields.meta = <<"empty", "id">>
    /\ hit.is_meta
    /\ Cardinality(StaticVars) = 1

\* check_http_error and check_http_redirect have returned for the hit.
StatusChecked == hit_pc \in {"check_static", "check_user_agent", "checked"}

\* C28: check_http_error sets is_error exactly for the hits whose status is
\* in the range 400..599, for every status of one or more digits.
C28_ErrorIff4xx5xx ==
    (StatusChecked /\ Len(fields.status) >= 1) =>
        (hit.is_error <=>
            (StatusValue(fields.status) >= 400 /\ StatusValue(fields.status) <= 599))

\* C29: check_http_redirect sets is_redirect exactly for the hits whose
\* status is in the range 300..399 and not 304, for every status of one or
\* more digits.
C29_RedirectIff3xxNot304 ==
    (StatusChecked /\ Len(fields.status) >= 1) =>
        (hit.is_redirect <=>
            (/\ StatusValue(fields.status) >= 300
             /\ StatusValue(fields.status) <= 399
             /\ StatusValue(fields.status) # 304))

\* The first key of the generation time that is present, in the order
\* milliseconds, microseconds, seconds.
FirstPresent(f) ==
    IF f.generation_time_milli # Absent THEN "generation_time_milli"
    ELSE IF f.generation_time_micro # Absent THEN "generation_time_micro"
    ELSE IF f.generation_time_secs # Absent THEN "generation_time_secs"
    ELSE "default"

\* C30: the generation time of the hit is taken from the first present key in
\* the order milliseconds, microseconds (divided by 1000), seconds
\* (multiplied by 1000), and is 0 when none is present: a present key of
\* higher priority always wins, and the absence of keys raises nothing.
C30_FirstPresentWins ==
    hit_pc \notin {"idle", "generation_time"} =>
        /\ hit.raised # "KeyError"
        /\ hit.gt_source = FirstPresent(fields)
        /\ hit.gt_source = "default" => hit.generation_time = 0
        /\ hit.gt_source = "generation_time_milli" =>
              hit.generation_time = fields.generation_time_milli * 1000
        /\ hit.gt_source = "generation_time_micro" =>
              hit.generation_time = fields.generation_time_micro
        /\ hit.gt_source = "generation_time_secs" =>
              hit.generation_time = fields.generation_time_secs * 1000 * 1000

\* ------------------------------------------------------------ the client address
IsDigit(c) == c \in {"0", "7"}

\* s is a.b.c.d with a, b, c, d non-empty strings of digits.
DottedIPv4(s) ==
    LET dots == {i \in 1..Len(s) : s[i] = "."}
    IN /\ Cardinality(dots) = 3
       /\ \A i \in (1..Len(s)) \ dots : IsDigit(s[i])
       /\ 1 \notin dots /\ Len(s) \notin dots
       /\ \A i \in dots : (i + 1) \notin dots

\* The position of the second dot of s.
SecondDot(s) ==
    CHOOSE j \in 1..Len(s) :
        s[j] = "." /\ Cardinality({i \in 1..(j - 1) : s[i] = "."}) = 1

\* C31: with IP anonymization enabled a dotted IPv4 address a.b.c.d is
\* stored on the hit as a.b.0.0; with anonymization disabled hit.ip is the
\* value extracted from the line, unchanged.
C31_AnonymizedOrUnchanged ==
    ip_pc = "done" =>
        /\ (ip_anonymization /\ DottedIPv4(ip)) =>
              hit_ip = SubSeq(ip, 1, SecondDot(ip)) \o <<"0", ".", "0">>
        /\ (~ip_anonymization) => hit_ip = ip

\* 7.0.7.7 has been stored as 7.0.0.0.
C31_Witness ==
    /\ ip_pc = "done"
    /\ ip_anonymization
    /\ ip = <<"7", ".", "0", ".", "7", ".", "7">>
    /\ hit_ip = <<"7", ".", "0", ".", "0", ".", "0">>

\* ------------------------------------------------------------ the date
\* C32: hit.date is in UTC: for every offset sHHMM it is the parsed local
\* time minus HH hours and MM minutes (plus, for a negative offset),
\* whatever the minutes are.
C32_DateIsUtc ==
    (tz_pc = "done" /\ timezone.present) =>
        hit_date = date_local - timezone.sign * (timezone.hh * 3600 + timezone.mm * 60)

\* The part of C32 that holds: an offset of whole hours is subtracted in full.
C32_WholeHoursAreUtc ==
    (tz_pc = "done" /\ timezone.present /\ timezone.mm = 0) =>
        hit_date = date_local - timezone.sign * timezone.hh * 3600

\* ------------------------------------------------------------ --skip
\* C33: with --skip = s the first s lines read in the run, counted over all
\* files, produce no hit (nothing is enqueued or counted as static or
\* download for them), and every line read after them is processed as with
\* no skip: its hit is enqueued if and only if the line is valid and the hit
\* deliverable.
C33_SkipsFirstLinesOfRun ==
    [][ (main_pc = "process" /\ main_pc' # "process") =>
          IF lines_read <= skip
          THEN /\ main_pc' = "loop"
               /\ enqueued' = enqueued /\ queue' = queue
               /\ count_lines_static' = count_lines_static
               /\ count_lines_downloads' = count_lines_downloads
          ELSE LET h == MakeHit(fileIdx, lineno, line)
               IN IF ValidLine(line) /\ Deliverable(h)
                  THEN enqueued' = Append(enqueued, h) /\ queue' = Append(queue, h)
                  ELSE enqueued' = enqueued /\ queue' = queue
      ]_vars

\* With --skip = 3 and two lines in each file, the second file's first line
\* was skipped and its second line is the only hit enqueued.
C33_Witness ==
    /\ skip = 3
    /\ lines_read = 4
    /\ Len(enqueued) = 1
    /\ enqueued[1].filename = 2 /\ enqueued[1].lineno = 1

\* ------------------------------------------------------------ recorded lines
\* The hits that the recorders of the set rs hold in their batches.
RECURSIVE HeldBy(_)
HeldBy(rs) ==
    IF rs = {} THEN 0
    ELSE LET r == CHOOSE x \in rs : TRUE
         IN Len(hits[r]) + HeldBy(rs \ {r})

\* The hits taken off the queue so far.
RECURSIVE TakenOf(_)
TakenOf(ids) ==
    IF ids = {} THEN 0
    ELSE LET id == CHOOSE x \in ids : TRUE
         IN dequeued[id] + TakenOf(ids \ {id})

\* The recorder is inside count_lines_recorded.advance(len(self.hits)).
Advancing(r) == pc[r] \in {"advance", "store"}

\* C34: count_lines_recorded (the value, and the increments behind it) is
\* at most the number of hits enqueued so far and counts no hit of a batch
\* whose call has not returned or has raised; advance(len(self.hits)) starts
\* only at the return of the batch's transport call, for the length of the
\* batch; and a recorder whose flush raised Matomo.Error never advances the
\* counter again.
C34_RecordedOnlyAfterReturn ==
    /\ [](/\ count_lines_recorded.value <= count_lines_recorded.counter
          /\ count_lines_recorded.counter <= Len(enqueued)
          /\ count_lines_recorded.counter <=
                TakenOf(HitIds) - HeldBy({r \in Recorders : ~Advancing(r)}))
    /\ [][ /\ count_lines_recorded' # count_lines_recorded =>
                \E r \in Recorders : Advancing(r)
           /\ \A r \in Recorders :
                 /\ (Advancing(r)' /\ ~Advancing(r)) =>
                       /\ pc[r] = "call"
                       /\ response'[r] # NoResponse
                       /\ adv_left'[r] = Len(hits[r])
                 /\ pc[r] \in {"error", "failed"} =>
                       (pc'[r] \in {"error", "failed"} /\ hits'[r] = hits[r])
         ]_vars

\* A recorder has stopped on Matomo.Error with its batch while another one
\* has had a batch counted.
C34_Witness ==
    \E r, q \in Recorders :
        /\ pc[r] = "failed" /\ hits[r] # <<>>
        /\ pc[q] = "get" /\ hits[q] = <<>>
        /\ count_lines_recorded.value = Threshold

\* ------------------------------------------------------------ the stop reason
\* C35: whenever a recorder is at, or handles, a Matomo.Error its batch is
\* not empty: no transport call is made for an empty batch, a failed flush
\* leaves the batch as it is, and so the handler finds self.hits[0] and
\* stops the run with the reason built from it.
C35_BatchNonEmptyAtError ==
    /\ [](\A r \in Recorders :
            /\ pc[r] \in {"call", "error", "failed"} => hits[r] # <<>>
            /\ pc[r] # "crashed")
    /\ [][ \A r \in Recorders :
             /\ (pc[r] = "call" /\ pc'[r] = "error") => hits'[r] = hits[r]
             /\ (pc[r] = "error" /\ pc'[r] # "error") =>
                   /\ pc'[r] = "failed"
                   /\ stopped'
                   /\ (~stopped) =>
                         reason' = <<"Encountered error", hits[r][1].filename>>
         ]_vars

\* A recorder has handled Matomo.Error and given the file of its first hit
\* as the reason of the stop.
C35_Witness ==
    \E r \in Recorders :
        /\ pc[r] = "failed"
        /\ Len(hits[r]) = Threshold
        /\ stopped
        /\ reason = <<"Encountered error", hits[r][1].filename>>

\* ------------------------------------------------------------ other exceptions
\* C36: an exception of a transport attempt outside the retriable set is not
\* retried: it leaves _call_wrapper at that attempt, with no error counted
\* and no delay, and the recorder that receives it makes no further attempt,
\* stops the run with no reason (if the run is not stopped already) and
\* exits with its batch as it was.
C36_OtherExceptionNotRetried ==
    [][ \A r \in Recorders :
          /\ (pc[r] = "call" /\ pc'[r] = "exception") =>
                /\ attempts'[r] = attempts[r] + 1
                /\ errors'[r] = errors[r]
                /\ delays'[r] = delays[r]
                /\ hits'[r] = hits[r]
          /\ pc[r] = "exception" =>
                /\ pc'[r] \in {"exception", "failed_exc"}
                /\ hits'[r] = hits[r]
                /\ pc'[r] = "failed_exc" =>
                      /\ stopped'
                      /\ (~stopped) => reason' = NoReason
                      /\ stopped => reason' = reason
          /\ pc[r] = "failed_exc" =>
                /\ pc'[r] = "failed_exc"
                /\ hits'[r] = hits[r]
                /\ attempts'[r] = attempts[r]
      ]_vars

\* A recorder has left on such an exception at its first attempt: the run
\* is stopped without a reason and the batch is still there.
C36_Witness ==
    \E r \in Recorders :
        /\ pc[r] = "failed_exc"
        /\ Len(hits[r]) = Threshold
        /\ stopped
        /\ reason = NoReason
        /\ \A q \in Recorders \ {r} : pc[q] = "get" /\ hits[q] = <<>>

====
